---- MODULE Spec2Model ----
(***************************************************************************)
(* Model of the MCP aggregation gateway (AggregatorMCPServer), its         *)
(* upstream connector (UniversalMCPClient) and the OAuth2 credential       *)
(* lifecycle (authenticateOAuth2 / OAuth2Client / CredentialStorage).      *)
(*                                                                         *)
(* Identifiers are modelled as sequences of one-character strings, so that *)
(* the template literals `${id}__${name}` and `${id}://${uri}` are real    *)
(* concatenations and two different (id, name) pairs can produce the same  *)
(* key exactly when the JavaScript strings would be equal.                 *)
(***************************************************************************)
EXTENDS Integers, Sequences, FiniteSets, TLC

(***************************************************************************)
(* Bounds of the model.                                                    *)
(***************************************************************************)
\* longest list of descriptors getAllServers returns
MaxServers == 2
\* upstream calls awaited at the same time
MaxInflight == 2
\* termination signals delivered in one run
MaxSignals == 1
\* further termination signals delivered while a shutdown is running
MaxResignals == 1
\* connects of OAuth2 upstreams (runs of authenticateOAuth2) in one run
MaxAcquires == 2
\* latest instant the clock reaches
MaxTime == 3

(***************************************************************************)
(* Universes the inputs are drawn from.                                    *)
(***************************************************************************)
\* upstream ids as they may stand in mcp-servers.json
Ids == { <<"a">>, <<"a", "_">>, <<"a", ":", "/", "/", "a">> }
\* original tool and prompt names an upstream may list
ToolNames == { <<"a">>, <<"_", "a">> }
PromptNames == { <<"a">>, <<"_", "a">> }
\* original resource uris an upstream may list
ResourceUris == { <<"a">>, <<"a", ":", "/", "/", "a">> }
\* request.params.arguments as the downstream caller sends it
ArgValues == { "undefined", "{}", "{x:1}" }

Range(s) == { s[i] : i \in 1..Len(s) }

\* sequences without repetition over S, of length at most n
RECURSIVE DistinctSeqs(_, _)
DistinctSeqs(S, n) ==
  IF n = 0 THEN { <<>> }
  ELSE LET shorter == DistinctSeqs(S, n - 1)
       IN shorter \cup
          UNION { { Append(q, x) : x \in S \ Range(q) } : q \in shorter }

(***************************************************************************)
(* What one upstream answers: whether connect() succeeds and, for each     *)
(* capability category, whether the capability flag is advertised, whether *)
(* the list call throws, and the original identifiers it returns.          *)
(***************************************************************************)
ListOutcomes(S) ==
  { [cap |-> FALSE, throws |-> FALSE, items |-> {}],
    [cap |-> TRUE, throws |-> TRUE, items |-> {}] } \cup
  { [cap |-> TRUE, throws |-> FALSE, items |-> X] : X \in (SUBSET S) \ { {} } }

NoList == [cap |-> FALSE, throws |-> FALSE, items |-> {}]

ThrowingList == [cap |-> TRUE, throws |-> TRUE, items |-> {}]

FullList(S) == [cap |-> TRUE, throws |-> FALSE, items |-> S]

NoConnect ==
  [connects |-> FALSE, tools |-> NoList, resources |-> NoList, prompts |-> NoList]

\* the behaviours of an upstream the aggregation pass is checked against
AllBehaviours ==
  { NoConnect } \cup
  { [connects |-> TRUE, tools |-> t, resources |-> r, prompts |-> p] :
      t \in ListOutcomes(ToolNames),
      r \in { NoList, ThrowingList, FullList(ResourceUris) },
      p \in { NoList, ThrowingList, FullList({ <<"a">> }) } }

\* upstreams that either fail to connect or list their whole catalogue
ServeBehaviours ==
  { NoConnect,
    [connects |-> TRUE, tools |-> FullList(ToolNames),
     resources |-> FullList({ <<"a">> }), prompts |-> FullList({ <<"a">> })] }

ServeIds == { <<"a">>, <<"a", "_">> }

VARIABLES
  argv,       \* process.argv[2], a string of characters; empty when absent
  file,       \* mcp-servers.json: whether it parses, and the elements of its array
  servers,    \* configManager.getAllServers(): the descriptors' ids, in order
  upstream,   \* environment: what each configured upstream answers
  phase,      \* "main" | "constructed" | "initializing" | "initialized" | "serving" | "exited"
  idx,        \* position of the for-loop of initialize in servers
  clients,    \* this.clients: ids in insertion order
  tools,      \* this.tools: key -> AggregatedTool
  resources,  \* this.resources: key -> AggregatedResource
  prompts,    \* this.prompts: key -> AggregatedPrompt
  connOpen,   \* ids whose UniversalMCPClient still has a live transport
  log,        \* console.error lines that matter, as [ev, id] records
  req,        \* the downstream request handled last
  resp,       \* what its handler gave at once ("pending": it awaits the upstream)
  made,       \* the calls that handler made on UniversalMCPClient handles
  inflight,   \* per upstream id, the number of calls still awaited
  relayed,    \* the upstream answer or rejection relayed last
  listing,    \* the identifiers the list handler called last returned
  sd,         \* one entry per running signal handler: its position in shutdown's loop
  disconnectCalls,  \* per upstream id, the number of client.disconnect() calls
  disconnectErrors, \* per upstream id, the number of "Error disconnecting" lines
  exitCode,   \* process exit code, -1 while the process runs
  manual,     \* per OAuth2 upstream id, the clientId of its descriptor ("" if none)
  store,      \* auth-credentials.json: per upstream id, the stored credential if any
  now,        \* Date.now()
  issued,     \* tokens the authorization server has issued so far
  acquires,   \* runs of authenticateOAuth2 started so far
  pc,         \* where the running authenticateOAuth2 stands
  cur,        \* the upstream id the running OAuth2Client was constructed for
  credentials, \* authenticateOAuth2's local `credentials`, once loaded
  client,     \* performFullAuth's clientId, clientSecret and registrationResponse
  tokenData,  \* the token endpoint's last successful response, and its instant
  done,       \* what the running authenticateOAuth2 has done so far, in order
  result,     \* how the last authenticateOAuth2 ended, and what it returned
  config,     \* per upstream id, the transport part of its descriptor
  browser,    \* environment: the queries of the callback requests that may arrive
  conn,       \* per upstream id, its UniversalMCPClient: transport, headers, fetch hook
  sent,       \* the outbound request made last: the upstream and the headers it carried
  cb          \* the callback listener of the authorization started last, and its wait

aggVars == <<argv, file, servers, upstream, phase, idx, clients, tools, resources, prompts, log>>
reqVars == <<req, resp, made, relayed, listing>>
sdVars == <<sd, disconnectCalls, disconnectErrors, exitCode>>
gatewayVars == <<aggVars, connOpen, inflight, reqVars, sdVars>>
envVars == <<config, browser>>
connVars == <<envVars, conn, sent>>
authVars == <<manual, store, now, issued, acquires, pc, cur, credentials, client,
              tokenData, done, result, connVars, cb>>
vars == <<gatewayVars, authVars>>

(***************************************************************************)
(* Namespacing (aggregator-server.ts, initialize).                         *)
(***************************************************************************)
\* mutant of PrefixedName: a single underscore as the delimiter
PrefixedNameOneUnderscore(id, name) == id \o <<"_">> \o name

\* `${serverConfig.id}__${tool.name}`
PrefixedName(id, name) == id \o <<"_", "_">> \o name

\* `${serverConfig.id}://${resource.uri}`
PrefixedUri(id, uri) == id \o <<":", "/", "/">> \o uri

\* mutant of AggregatedTool: the entry keeps the name the upstream gave
AggregatedToolOriginalName(id, name) ==
  [name |-> name, serverId |-> id, originalName |-> name]

\* the value of this.tools.set: the tool under its prefixed name
AggregatedTool(id, name) ==
  [name |-> PrefixedName(id, name), serverId |-> id, originalName |-> name]

AggregatedResource(id, uri) ==
  [uri |-> PrefixedUri(id, uri), serverId |-> id, originalUri |-> uri]

AggregatedPrompt(id, name) ==
  [name |-> PrefixedName(id, name), serverId |-> id, originalName |-> name]

Event(ev, id) == [ev |-> ev, id |-> id]

Request(kind, name, args) == [kind |-> kind, name |-> name, args |-> args]

\* mutant of Fresh: nothing of a list is kept
FreshNone(outcome) == {}

\* the identifiers one list call of the loop body yields
Fresh(outcome) == IF outcome.cap /\ ~outcome.throws THEN outcome.items ELSE {}

\* the entries built from one upstream's list, by key.  Within one upstream
\* and one category different originals give different keys.
ToolEntries(id, outcome) ==
  [k \in { PrefixedName(id, n) : n \in Fresh(outcome) } |->
     AggregatedTool(id, CHOOSE n \in Fresh(outcome) : PrefixedName(id, n) = k)]

ResourceEntries(id, outcome) ==
  [k \in { PrefixedUri(id, u) : u \in Fresh(outcome) } |->
     AggregatedResource(id, CHOOSE u \in Fresh(outcome) : PrefixedUri(id, u) = k)]

PromptEntries(id, outcome) ==
  [k \in { PrefixedName(id, n) : n \in Fresh(outcome) } |->
     AggregatedPrompt(id, CHOOSE n \in Fresh(outcome) : PrefixedName(id, n) = k)]

\* mutant of Aggregate: the registry is rebuilt from the list instead of merged
AggregateReplacing(map, entries) == IF DOMAIN entries = {} THEN map ELSE entries

\* Map.prototype.set for every entry of one list: the registry afterwards
Aggregate(map, entries) ==
  [k \in DOMAIN map \cup DOMAIN entries |->
     IF k \in DOMAIN entries THEN entries[k] ELSE map[k]]

\* the "Error loading ..." line of one category
ListErrors(id, outcome, ev) ==
  IF outcome.cap /\ outcome.throws THEN << Event(ev, id) >> ELSE << >>

(***************************************************************************)
(* The connector (UniversalMCPClient.connect).  A header set gives each    *)
(* header name its value, 0 when the header is absent; a bearer token is   *)
(* the header's value.  The SDK transports are taken to add the headers of *)
(* requestInit to every request and then to pass it through the fetch hook *)
(* they were constructed with.                                             *)
(***************************************************************************)
HeaderNames == { "Authorization", "XApiKey" }

NoHeaders == [Authorization |-> 0, XApiKey |-> 0]

NoConnection ==
  [phase |-> "none", error |-> "", transport |-> "none", requestInit |-> NoHeaders,
   hook |-> NoHeaders, oauth2Client |-> FALSE, attempts |-> 0]

\* mutant of ConnectDispatch: websocket descriptors are connected like SSE ones
ConnectDispatchWebSocketAsSSE(type) ==
  CASE type = "stdio" -> "connectStdio"
    [] type = "streamable-http" -> "connectStreamableHTTP"
    [] OTHER -> "connectSSE"

\* the switch of connect()
ConnectDispatch(type) ==
  CASE type = "stdio" -> "connectStdio"
    [] type = "streamable-http" -> "connectStreamableHTTP"
    [] type = "sse" -> "connectSSE"
    [] type = "websocket" -> "UnsupportedTransport"
    [] OTHER -> "UnknownTransport"

\* `config.requiresAuth && config.authType === "oauth2"`
UsesOAuth2(cfg) == cfg.requiresAuth /\ cfg.authType = "oauth2"

\* the local `headers`: `{ ...config.headers }`, plus the bearer of OAuth2
Headers(cfg, accessToken) ==
  IF UsesOAuth2(cfg) THEN [cfg.headers EXCEPT !.Authorization = accessToken]
  ELSE cfg.headers

\* mutant of FetchHook: the hook of the configured headers is not installed
FetchHookOAuth2Only(cfg, accessToken) ==
  IF UsesOAuth2(cfg) THEN [NoHeaders EXCEPT !.Authorization = accessToken]
  ELSE NoHeaders

\* mutant of FetchHook: the OAuth2 hook is not installed
FetchHookPlain(cfg, accessToken) ==
  IF cfg.headers.Authorization # 0 THEN Headers(cfg, accessToken) ELSE NoHeaders

\* the headers the fetch hook sets on each request (none: the global fetch)
FetchHook(cfg, accessToken) ==
  IF UsesOAuth2(cfg) THEN [NoHeaders EXCEPT !.Authorization = accessToken]
  ELSE IF cfg.headers.Authorization # 0 THEN Headers(cfg, accessToken)
  ELSE NoHeaders

\* mutant of RequestInit: no transport is given the headers
RequestInitNever(cfg, accessToken) == NoHeaders

\* `requestInit: { headers }` is given to the streamable HTTP transport only
RequestInit(cfg, accessToken) ==
  IF cfg.transport = "streamable-http" THEN Headers(cfg, accessToken) ELSE NoHeaders

\* the headers of an outbound request of a connection
Outbound(c) ==
  [h \in HeaderNames |-> IF c.hook[h] # 0 THEN c.hook[h] ELSE c.requestInit[h]]

\* the UniversalMCPClient after `new Transport(...)` and client.connect
Transported(cfg, accessToken, ok) ==
  [phase |-> IF ok THEN "open" ELSE "failed",
   error |-> IF ok THEN "" ELSE "ConnectError",
   transport |-> cfg.transport,
   requestInit |-> RequestInit(cfg, accessToken),
   hook |-> FetchHook(cfg, accessToken),
   oauth2Client |-> UsesOAuth2(cfg),
   attempts |-> 1]

(***************************************************************************)
(* AggregatorMCPServer.initialize and start.                               *)
(***************************************************************************)
(***************************************************************************)
(* main (start-aggregator.ts): the port argument.                          *)
(***************************************************************************)
Digits == { "8", "9" }

DigitValue(c) == IF c = "8" THEN 8 ELSE 9

\* the arguments main is run with: none, a number, a number followed by
\* letters, letters, and a number that is no port
PortArguments ==
  { << >>, <<"8">>, <<"8", "a">>, <<"a">>, <<"a", "8">>, <<"9", "9", "9", "9", "9">> }

\* parseInt(str, 10): the number written by the longest prefix of digits,
\* NaN when that prefix is empty; `acc` is what has been read so far
RECURSIVE ParseInt(_, _)
ParseInt(str, acc) ==
  IF str # << >> /\ Head(str) \in Digits
  THEN ParseInt(Tail(str), [nan |-> FALSE,
                            value |-> 10 * acc.value + DigitValue(Head(str)),
                            some |-> TRUE])
  ELSE [acc EXCEPT !.nan = ~acc.some]

NothingRead == [nan |-> FALSE, value |-> 0, some |-> FALSE]

\* `process.argv[2] ? parseInt(process.argv[2], 10) : 3000`
Port(arg) ==
  IF arg = << >> THEN [nan |-> FALSE, value |-> 3000, some |-> TRUE]
  ELSE ParseInt(arg, NothingRead)

\* listen(port) throws a RangeError unless the port is in 0..65535
Listens(port) == port.value \in 0..65535

(***************************************************************************)
(* The configuration (ServerConfigManager).  An element of the array in    *)
(* mcp-servers.json is a descriptor, a descriptor without its `transport`  *)
(* member, or null; lastUsed 0 stands for an absent lastUsed.              *)
(***************************************************************************)
Element(id, shape, createdAt, lastUsed) ==
  [id |-> id, shape |-> shape, createdAt |-> createdAt, lastUsed |-> lastUsed]

NullElement == Element(<< >>, "null", 0, 0)

\* a file this program's addServer and save have written for the ids of q,
\* listed first to last as getAllServers lists them
Written(q) ==
  [readable |-> TRUE,
   configs |-> [i \in 1..Len(q) |-> Element(q[i], "record", Len(q) + 1 - i, 0)]]

WrittenFiles(idSet) == { Written(q) : q \in DistinctSeqs(idSet, MaxServers) }

\* files as anyone may have written them: a file that does not parse, and
\* arrays of descriptors (with or without transport, ids repeated or not,
\* created and used at any time) and nulls
AnyElements ==
  { Element(id, shape, createdAt, lastUsed) :
      id \in ServeIds, shape \in { "record", "no_transport" },
      createdAt \in { 1, 2 }, lastUsed \in { 0, 1 } } \cup { NullElement }

AnyFiles ==
  { [readable |-> FALSE, configs |-> << >>] } \cup
  { [readable |-> TRUE, configs |-> q] :
      q \in UNION { [1..n -> AnyElements] : n \in 0..MaxServers } }

\* the ids the descriptors of a file carry
FileIds(f) ==
  { f.configs[i].id : i \in { j \in 1..Len(f.configs) : f.configs[j].shape # "null" } }

\* mutant of MapSet: an entry is added whether or not its key is present
MapSetAppending(m, e) == Append(m, e)

\* Map.prototype.set on a map held as its entries in insertion order
MapSet(m, e) ==
  IF \E i \in 1..Len(m) : m[i].id = e.id
  THEN [i \in 1..Len(m) |-> IF m[i].id = e.id THEN e ELSE m[i]]
  ELSE Append(m, e)

\* new Map(configs.map((config) => [config.id, config]))
RECURSIVE NewMap(_)
NewMap(configs) ==
  IF configs = << >> THEN << >>
  ELSE MapSet(NewMap(SubSeq(configs, 1, Len(configs) - 1)), configs[Len(configs)])

\* load(): readFile or JSON.parse throws on an unreadable file and
\* `config.id` throws on a null element; the catch leaves an empty map
Load(f) ==
  IF ~f.readable \/ \E i \in 1..Len(f.configs) : f.configs[i].shape = "null"
  THEN << >>
  ELSE NewMap(f.configs)

\* the comparator of getAllServers: negative when a goes before b
Compare(a, b) ==
  IF a.lastUsed # 0 /\ b.lastUsed # 0 THEN b.lastUsed - a.lastUsed
  ELSE IF a.lastUsed # 0 THEN -1
  ELSE IF b.lastUsed # 0 THEN 1
  ELSE b.createdAt - a.createdAt

\* x put into a sorted array behind everything it does not go before
Insert(sorted, x) ==
  LET before == { i \in 1..Len(sorted) : Compare(x, sorted[i]) < 0 }
      at == IF before = {} THEN Len(sorted) + 1
            ELSE CHOOSE i \in before : \A j \in before : i <= j
  IN SubSeq(sorted, 1, at - 1) \o << x >> \o SubSeq(sorted, at, Len(sorted))

\* Array.prototype.sort with that comparator (a stable sort)
RECURSIVE Sort(_)
Sort(array) ==
  IF array = << >> THEN << >>
  ELSE Insert(Sort(SubSeq(array, 1, Len(array) - 1)), array[Len(array)])

\* getAllServers(): the values of the map, sorted
GetAllServers(map) == Sort(map)

\* the ids of an array of descriptors, in its order
IdsOf(array) == [i \in 1..Len(array) |-> array[i].id]

\* the descriptor the loop of initialize holds for an id
ServerConfig(id) ==
  LET map == Load(file) IN map[CHOOSE i \in 1..Len(map) : map[i].id = id]

\* the descriptors of the upstreams of a gateway whose connects are followed
\* into the connector: local processes and websocket endpoints, the latter
\* also with an OAuth2 requirement written into the configuration file
AggConfigs ==
  [transport : { "stdio" }, requiresAuth : { FALSE }, authType : { "none" },
   headers : { NoHeaders }] \cup
  { [transport |-> "websocket", requiresAuth |-> FALSE, authType |-> "none",
     headers |-> NoHeaders],
    [transport |-> "websocket", requiresAuth |-> TRUE, authType |-> "oauth2",
     headers |-> NoHeaders] }

\* `configs` empty: the connects are taken from `upstream` alone;
\* `args` empty: the server object has been constructed with the default port
InitAgg(files, behaviours, configs, args) ==
  /\ argv \in IF args = {} THEN { << >> } ELSE args
  /\ file \in files
  /\ servers = << >>
  /\ upstream \in [FileIds(file) -> behaviours]
  /\ phase = IF args = {} THEN "constructed" ELSE "main"
  /\ idx = 1
  /\ clients = << >>
  /\ tools = << >>
  /\ resources = << >>
  /\ prompts = << >>
  /\ connOpen = {}
  /\ log = << >>
  /\ req = Request("none", << >>, "undefined")
  /\ resp = "none"
  /\ made = << >>
  /\ listing = {}
  /\ inflight = [id \in FileIds(file) |-> 0]
  /\ relayed = "none"
  /\ sd = << >>
  /\ disconnectCalls = [id \in FileIds(file) |-> 0]
  /\ disconnectErrors = [id \in FileIds(file) |-> 0]
  /\ exitCode = -1
  \* no OAuth2 upstream is being connected
  /\ manual = << >>
  /\ store = << >>
  /\ now = 1
  /\ issued = 0
  /\ acquires = 0
  /\ pc = "idle"
  /\ cur = << >>
  /\ credentials = << >>
  /\ client = [clientId |-> "", clientSecret |-> "", registrationResponse |-> << >>,
               registration_endpoint |-> FALSE]
  /\ tokenData = [at |-> 0, expires_in |-> 0, refresh_token |-> FALSE]
  /\ done = << >>
  /\ result = [status |-> "none", value |-> << >>, at |-> 0]
  /\ config \in IF configs = {} THEN { << >> } ELSE [FileIds(file) -> configs]
  /\ browser = {}
  /\ conn = [id \in DOMAIN config |-> NoConnection]
  /\ sent = [id |-> << >>, headers |-> [Authorization |-> 0, XApiKey |-> 0]]
  /\ cb = [listener |-> "none", timer |-> FALSE, state |-> 0, outcome |-> "none",
           query |-> [error |-> FALSE, state |-> 0, code |-> "absent"]]

\* main(): read the port; a NaN port is an error and exit(1), otherwise the
\* server object is constructed
Main ==
  /\ phase = "main"
  /\ IF Port(argv).nan
     THEN /\ phase' = "exited"
          /\ exitCode' = 1
          /\ log' = Append(log, Event("invalid_port", << >>))
     ELSE /\ phase' = "constructed"
          /\ UNCHANGED <<exitCode, log>>
  /\ UNCHANGED <<argv, file, servers, upstream, idx, clients, tools, resources, prompts,
                 connOpen, inflight, reqVars, sd, disconnectCalls, disconnectErrors>>
  /\ UNCHANGED authVars

\* mutant of InitializeLoad: no configured server is a startup error
InitializeLoadAborting ==
  /\ phase = "constructed"
  /\ servers' = IdsOf(GetAllServers(Load(file)))
  /\ IF Len(servers') = 0
     THEN /\ phase' = "exited"
          /\ log' = Append(log, Event("no_servers", << >>))
     ELSE /\ phase' = "initializing"
          /\ log' = log
  /\ UNCHANGED <<argv, file, upstream, idx, clients, tools, resources, prompts,
                 connOpen, inflight, reqVars, sdVars>>
  /\ UNCHANGED authVars

\* load the configuration; with no servers, warn and return
InitializeLoad ==
  /\ phase = "constructed"
  /\ servers' = IdsOf(GetAllServers(Load(file)))
  /\ IF Len(servers') = 0
     THEN /\ phase' = "initialized"
          /\ log' = Append(log, Event("no_servers", << >>))
     ELSE /\ phase' = "initializing"
          /\ log' = log
  /\ UNCHANGED <<argv, file, upstream, idx, clients, tools, resources, prompts,
                 connOpen, inflight, reqVars, sdVars>>
  /\ UNCHANGED authVars

\* mutant of InitializeServer: the handle of a connected upstream is not stored
InitializeServerDroppingHandle ==
  /\ phase = "initializing"
  /\ idx <= Len(servers)
  /\ LET id == servers[idx]
         up == upstream[id]
         described == id \in DOMAIN config
         branch == IF described THEN ConnectDispatch(config[id].transport)
                   ELSE "undescribed"
         \* `transportConfig.type` of a descriptor without transport throws
         refused == \/ branch \in { "UnsupportedTransport", "UnknownTransport" }
                    \/ ServerConfig(id).shape = "no_transport"
     IN /\ conn' = IF ~described THEN conn
                   ELSE IF refused
                   THEN [conn EXCEPT ![id] = [NoConnection EXCEPT
                                                !.phase = "failed",
                                                !.error = branch]]
                   ELSE [conn EXCEPT ![id] = Transported(config[id], 0, up.connects)]
        /\ IF refused \/ ~up.connects
           THEN /\ log' = Append(log, Event("connect_failed", id))
                /\ UNCHANGED <<clients, tools, resources, prompts, connOpen>>
           ELSE /\ clients' = clients
                /\ connOpen' = connOpen \cup { id }
                /\ tools' = Aggregate(tools, ToolEntries(id, up.tools))
                /\ resources' = Aggregate(resources, ResourceEntries(id, up.resources))
                /\ prompts' = Aggregate(prompts, PromptEntries(id, up.prompts))
                /\ log' = log \o ListErrors(id, up.tools, "tools_error")
                              \o ListErrors(id, up.resources, "resources_error")
                              \o ListErrors(id, up.prompts, "prompts_error")
  /\ idx' = idx + 1
  /\ UNCHANGED <<argv, file, servers, upstream, phase, inflight, reqVars, sdVars>>
  /\ UNCHANGED <<manual, store, now, issued, acquires, pc, cur, credentials, client,
                 tokenData, done, result, envVars, sent, cb>>

\* one iteration of the for-loop: connect, store the handle, aggregate
InitializeServer ==
  /\ phase = "initializing"
  /\ idx <= Len(servers)
  /\ LET id == servers[idx]
         up == upstream[id]
         described == id \in DOMAIN config
         branch == IF described THEN ConnectDispatch(config[id].transport)
                   ELSE "undescribed"
         \* `transportConfig.type` of a descriptor without transport throws
         refused == \/ branch \in { "UnsupportedTransport", "UnknownTransport" }
                    \/ ServerConfig(id).shape = "no_transport"
     IN /\ conn' = IF ~described THEN conn
                   ELSE IF refused
                   THEN [conn EXCEPT ![id] = [NoConnection EXCEPT
                                                !.phase = "failed",
                                                !.error = branch]]
                   ELSE [conn EXCEPT ![id] = Transported(config[id], 0, up.connects)]
        /\ IF refused \/ ~up.connects
           THEN /\ log' = Append(log, Event("connect_failed", id))
                /\ UNCHANGED <<clients, tools, resources, prompts, connOpen>>
           ELSE /\ clients' = IF id \in Range(clients) THEN clients
                              ELSE Append(clients, id)
                /\ connOpen' = connOpen \cup { id }
                /\ tools' = Aggregate(tools, ToolEntries(id, up.tools))
                /\ resources' = Aggregate(resources, ResourceEntries(id, up.resources))
                /\ prompts' = Aggregate(prompts, PromptEntries(id, up.prompts))
                /\ log' = log \o ListErrors(id, up.tools, "tools_error")
                              \o ListErrors(id, up.resources, "resources_error")
                              \o ListErrors(id, up.prompts, "prompts_error")
  /\ idx' = idx + 1
  /\ UNCHANGED <<argv, file, servers, upstream, phase, inflight, reqVars, sdVars>>
  /\ UNCHANGED <<manual, store, now, issued, acquires, pc, cur, credentials, client,
                 tokenData, done, result, envVars, sent, cb>>

\* the loop is over: initialize returns
InitializeDone ==
  /\ phase = "initializing"
  /\ idx > Len(servers)
  /\ phase' = "initialized"
  /\ UNCHANGED <<argv, file, servers, upstream, idx, clients, tools, resources, prompts,
                 connOpen, log, inflight, reqVars, sdVars>>
  /\ UNCHANGED authVars

\* mutant of StartListen: the endpoint is bound while initialize still runs
StartListenEarly ==
  /\ phase \in { "initializing", "initialized" }
  /\ IF Listens(Port(argv))
     THEN /\ phase' = "serving"
          /\ UNCHANGED <<exitCode, log>>
     ELSE \* listen throws, start rejects, main's catch: "Fatal error", exit(1)
          /\ phase' = "exited"
          /\ exitCode' = 1
          /\ log' = Append(log, Event("fatal_error", << >>))
  /\ UNCHANGED <<argv, file, servers, upstream, idx, clients, tools, resources, prompts,
                 connOpen, inflight, reqVars, sd, disconnectCalls, disconnectErrors>>
  /\ UNCHANGED authVars

\* start(): initialize has returned; bind the endpoint, install the handlers
StartListen ==
  /\ phase = "initialized"
  /\ IF Listens(Port(argv))
     THEN /\ phase' = "serving"
          /\ UNCHANGED <<exitCode, log>>
     ELSE \* listen throws, start rejects, main's catch: "Fatal error", exit(1)
          /\ phase' = "exited"
          /\ exitCode' = 1
          /\ log' = Append(log, Event("fatal_error", << >>))
  /\ UNCHANGED <<argv, file, servers, upstream, idx, clients, tools, resources, prompts,
                 connOpen, inflight, reqVars, sd, disconnectCalls, disconnectErrors>>
  /\ UNCHANGED authVars

(***************************************************************************)
(* Request dispatch (setupHandlers).  A handler's outcome is the response  *)
(* it gives at once ("pending" when it awaits the upstream) and the calls  *)
(* it makes on UniversalMCPClient handles.                                 *)
(***************************************************************************)
\* mutant of Call: every call goes to the handle stored first
CallOnFirstClient(server, method, name, args) ==
  [server |-> clients[1], method |-> method, name |-> name, args |-> args,
   open |-> clients[1] \in connOpen]

\* client.callTool / readResource / getPrompt on the handle of `server`
Call(server, method, name, args) ==
  [server |-> server, method |-> method, name |-> name, args |-> args,
   open |-> server \in connOpen]

Outcome(response, callsMade) == [resp |-> response, calls |-> callsMade]

\* what awaiting a call on the handle gives at once: the SDK client of a
\* closed connection rejects with "Not connected"
Awaited(call) == IF call.open THEN "pending" ELSE "NotConnected"

\* `request.params.arguments || {}`
ToolArguments(args) == IF args = "undefined" THEN "{}" ELSE args

\* CallToolRequestSchema handler
CallToolHandler(name, args) ==
  IF name \notin DOMAIN tools
  THEN Outcome("UnknownEntry", << >>)
  ELSE LET tool == tools[name]
           call == Call(tool.serverId, "callTool", tool.originalName,
                        ToolArguments(args))
       IN IF tool.serverId \notin Range(clients)
          THEN Outcome("UpstreamUnavailable", << >>)
          ELSE Outcome(Awaited(call), << call >>)

\* mutant of ReadResourceHandler: an unknown uri is read from the handle
\* stored first instead of being refused
ReadResourceHandlerFallback(uri) ==
  IF uri \notin DOMAIN resources
  THEN IF clients = << >> THEN Outcome("UnknownEntry", << >>)
       ELSE LET call == Call(clients[1], "readResource", uri, "undefined")
            IN Outcome(Awaited(call), << call >>)
  ELSE LET resource == resources[uri]
           call == Call(resource.serverId, "readResource",
                        resource.originalUri, "undefined")
       IN Outcome(Awaited(call), << call >>)

\* ReadResourceRequestSchema handler
ReadResourceHandler(uri) ==
  IF uri \notin DOMAIN resources
  THEN Outcome("UnknownEntry", << >>)
  ELSE LET resource == resources[uri]
           call == Call(resource.serverId, "readResource",
                        resource.originalUri, "undefined")
       IN IF resource.serverId \notin Range(clients)
          THEN Outcome("UpstreamUnavailable", << >>)
          ELSE Outcome(Awaited(call), << call >>)

\* GetPromptRequestSchema handler
GetPromptHandler(name, args) ==
  IF name \notin DOMAIN prompts
  THEN Outcome("UnknownEntry", << >>)
  ELSE LET prompt == prompts[name]
           call == Call(prompt.serverId, "getPrompt", prompt.originalName,
                        args)
       IN IF prompt.serverId \notin Range(clients)
          THEN Outcome("UpstreamUnavailable", << >>)
          ELSE Outcome(Awaited(call), << call >>)

\* identifiers a downstream caller may send: every key the configured servers
\* could have contributed, and a bare original identifier
NameRequests(names) ==
  { PrefixedName(id, n) : id \in Range(servers), n \in names } \cup { <<"a">> }

UriRequests ==
  { PrefixedUri(id, u) : id \in Range(servers), u \in { <<"a">> } } \cup { <<"a">> }

Awaiting == { id \in DOMAIN inflight : inflight[id] > 0 }

RECURSIVE Sum(_, _)
Sum(f, S) == IF S = {} THEN 0
             ELSE LET x == CHOOSE y \in S : TRUE IN f[x] + Sum(f, S \ { x })

\* the endpoint answers POST /mcp while the process runs; httpServer.close()
\* only stops new connections, a kept-alive one still delivers requests
Accepting ==
  /\ phase = "serving"
  /\ Sum(inflight, DOMAIN inflight) < MaxInflight

\* the awaited calls after the handler made its calls
Await(callsMade) ==
  [id \in DOMAIN inflight |->
     inflight[id] + Cardinality({ i \in DOMAIN callsMade :
                                    callsMade[i].server = id /\ callsMade[i].open })]

Handle(request, outcome) ==
  /\ req' = request
  /\ resp' = outcome.resp
  /\ made' = outcome.calls
  /\ inflight' = Await(outcome.calls)
  /\ listing' = {}
  /\ UNCHANGED <<aggVars, connOpen, relayed, sdVars, authVars>>

\* ListToolsRequestSchema handler: the names of Array.from(this.tools.values())
ListToolsHandler == { tools[k].name : k \in DOMAIN tools }

\* ListResourcesRequestSchema handler
ListResourcesHandler == { resources[k].uri : k \in DOMAIN resources }

\* ListPromptsRequestSchema handler
ListPromptsHandler == { prompts[k].name : k \in DOMAIN prompts }

\* a list request is answered from the registry alone
HandleList(kind, returned) ==
  /\ req' = Request(kind, << >>, "undefined")
  /\ resp' = "listed"
  /\ made' = << >>
  /\ listing' = returned
  /\ UNCHANGED <<aggVars, connOpen, inflight, relayed, sdVars, authVars>>

ListTools ==
  /\ phase = "serving"
  /\ HandleList("tools/list", ListToolsHandler)

ListResources ==
  /\ phase = "serving"
  /\ HandleList("resources/list", ListResourcesHandler)

ListPrompts ==
  /\ phase = "serving"
  /\ HandleList("prompts/list", ListPromptsHandler)

CallTool ==
  /\ Accepting
  /\ \E name \in NameRequests(ToolNames), args \in ArgValues :
       Handle(Request("tools/call", name, args), CallToolHandler(name, args))

ReadResource ==
  /\ Accepting
  /\ \E uri \in UriRequests :
       Handle(Request("resources/read", uri, "undefined"),
              ReadResourceHandler(uri))

GetPrompt ==
  /\ Accepting
  /\ \E name \in NameRequests({ <<"a">> }), args \in ArgValues :
       Handle(Request("prompts/get", name, args), GetPromptHandler(name, args))

\* the upstream answers an awaited call; the handler returns the result or
\* rethrows the error as it is
UpstreamReply ==
  /\ phase = "serving"
  /\ \E id \in Awaiting, answer \in { "result", "upstream_error" } :
       /\ inflight' = [inflight EXCEPT ![id] = @ - 1]
       /\ relayed' = answer
  /\ UNCHANGED <<aggVars, connOpen, req, resp, made, listing, sdVars>>
  /\ UNCHANGED authVars

\* the connection of `id` closes: the SDK client rejects the calls it awaits
Close(id) ==
  /\ connOpen' = connOpen \ { id }
  /\ inflight' = [inflight EXCEPT ![id] = 0]
  /\ relayed' = IF inflight[id] > 0 THEN "ConnectionClosed" ELSE relayed

\* an upstream goes away (process exit, network drop): its transport closes;
\* the gateway's maps are not touched
UpstreamDrop ==
  /\ phase = "serving"
  /\ \E id \in connOpen : Close(id)
  /\ UNCHANGED <<aggVars, req, resp, made, listing, sdVars>>
  /\ UNCHANGED authVars

(***************************************************************************)
(* Shutdown (the SIGINT / SIGTERM handlers of start, and shutdown).        *)
(***************************************************************************)
\* a termination signal: httpServer.close(), then shutdown() starts
Signal ==
  /\ phase = "serving"
  /\ Len(sd) < MaxSignals
  /\ sd' = Append(sd, 1)
  /\ UNCHANGED <<aggVars, connOpen, inflight, reqVars, disconnectCalls,
                 disconnectErrors, exitCode>>
  /\ UNCHANGED authVars

\* a further termination signal while shutdown is awaiting its disconnects:
\* the handler installed by process.on runs again
SignalAgain ==
  /\ phase = "serving"
  /\ sd # << >>
  /\ Len(sd) <= MaxResignals
  /\ sd' = Append(sd, 1)
  /\ UNCHANGED <<aggVars, connOpen, inflight, reqVars, disconnectCalls,
                 disconnectErrors, exitCode>>
  /\ UNCHANGED authVars

\* mutant of ShutdownStep: a disconnect that throws ends the loop
ShutdownStepAborting ==
  /\ phase = "serving"
  /\ \E h \in DOMAIN sd :
       /\ sd[h] <= Len(clients)
       /\ LET id == clients[sd[h]]
          IN /\ disconnectCalls' = [disconnectCalls EXCEPT ![id] = @ + 1]
             /\ \/ /\ Close(id)
                   /\ UNCHANGED disconnectErrors
                   /\ sd' = [sd EXCEPT ![h] = sd[h] + 1]
                \/ /\ disconnectErrors' = [disconnectErrors EXCEPT ![id] = @ + 1]
                   /\ sd' = [sd EXCEPT ![h] = Len(clients) + 1]
                   /\ \/ Close(id)
                      \/ UNCHANGED <<connOpen, inflight, relayed>>
  /\ UNCHANGED <<aggVars, req, resp, made, listing, exitCode>>
  /\ UNCHANGED authVars

\* one iteration of shutdown's loop: await client.disconnect()
ShutdownStep ==
  /\ phase = "serving"
  /\ \E h \in DOMAIN sd :
       /\ sd[h] <= Len(clients)
       /\ LET id == clients[sd[h]]
          IN /\ disconnectCalls' = [disconnectCalls EXCEPT ![id] = @ + 1]
             /\ \/ /\ Close(id)
                   /\ UNCHANGED disconnectErrors
                \/ /\ disconnectErrors' = [disconnectErrors EXCEPT ![id] = @ + 1]
                   /\ \/ Close(id)
                      \/ UNCHANGED <<connOpen, inflight, relayed>>
       /\ sd' = [sd EXCEPT ![h] = sd[h] + 1]
  /\ UNCHANGED <<aggVars, req, resp, made, listing, exitCode>>
  /\ UNCHANGED authVars

\* the loop is over: await this.server.close(), then process.exit(0)
ShutdownFinish ==
  /\ phase = "serving"
  /\ \E h \in DOMAIN sd : sd[h] > Len(clients)
  /\ phase' = "exited"
  /\ exitCode' = 0
  /\ UNCHANGED <<argv, file, servers, upstream, idx, clients, tools, resources, prompts,
                 log, connOpen, inflight, reqVars, sd, disconnectCalls,
                 disconnectErrors>>
  /\ UNCHANGED authVars

(***************************************************************************)
(* Authentication (UniversalMCPClient.authenticateOAuth2, performFullAuth; *)
(* OAuth2Client; CredentialStorage).  The clock counts in units of one     *)
(* expires_in second.  An absent optional number (expiresAt, a refresh     *)
(* token) is 0, which JavaScript's truthiness tests treat like undefined;  *)
(* an absent record is the empty sequence.                                 *)
(***************************************************************************)
\* ids of the upstreams whose descriptor asks for OAuth2
AuthIds == { <<"a">>, <<"b">> }

StoredCredentials(clientId, clientSecret, accessToken, refreshToken, expiresAt, reg) ==
  [clientId |-> clientId, clientSecret |-> clientSecret,
   accessToken |-> accessToken, refreshToken |-> refreshToken,
   tokenType |-> "Bearer", expiresAt |-> expiresAt,
   registrationResponse |-> reg]

\* what the token endpoint may answer
TokenResponses ==
  [ok : { TRUE }, expires_in : { 0, 1 }, refresh_token : BOOLEAN] \cup
  [ok : { FALSE }, expires_in : { 0 }, refresh_token : { FALSE }]

\* what the well-known metadata endpoint may answer
MetadataResponses ==
  [ok : { TRUE }, registration_endpoint : BOOLEAN] \cup
  [ok : { FALSE }, registration_endpoint : { FALSE }]

\* what reaches GET /callback
\* the query of a GET /callback request: whether `error` is there (and not
\* empty), the `state` (0: none; else the state generated by the run of that
\* number), and the `code` (not a string, the empty string, or a code)
Callbacks ==
  [error : BOOLEAN, state : 0..MaxAcquires, code : { "absent", "empty", "code" }]

\* one denied callback and, for each run, a callback with its state, with
\* and without a code
SomeCallbacks ==
  { [error |-> TRUE, state |-> 0, code |-> "absent"] } \cup
  [error : { FALSE }, state : 1..MaxAcquires, code : { "absent", "code" }]

\* mutant of Classify: the state of the callback is not compared
ClassifyIgnoringState(query, expectedState) ==
  IF query.error THEN "AuthorizationDenied"
  ELSE IF query.code = "absent" THEN "MissingCode"
  ELSE "code"

\* mutant of Classify: a callback without a code is taken as a success
ClassifyWithoutCodeCheck(query, expectedState) ==
  IF query.error THEN "AuthorizationDenied"
  ELSE IF query.state # expectedState THEN "StateMismatch"
  ELSE "code"

\* the GET /callback handler: what it settles the wait with
Classify(query, expectedState) ==
  IF query.error THEN "AuthorizationDenied"
  ELSE IF query.state # expectedState THEN "StateMismatch"
  ELSE IF query.code = "absent" THEN "MissingCode"
  ELSE "code"

\* mutant of ClosesLater: no timer is set
ClosesLaterNever(outcome) == FALSE

\* the handler closes the listener at once on a failure, and through
\* setTimeout(..., 1000) on a success
ClosesLater(outcome) == outcome = "code"

NoClient ==
  [clientId |-> "", clientSecret |-> "", registrationResponse |-> << >>,
   registration_endpoint |-> FALSE]

\* mutant of ClientIdentity: the descriptor's clientId wins over a stored record
ClientIdentityManualFirst(storedCreds, manualClientId, registration_endpoint) ==
  IF manualClientId # "" THEN "manual"
  ELSE IF storedCreds # << >> /\ storedCreds[1].registrationResponse # << >>
  THEN "stored"
  ELSE IF registration_endpoint THEN "register"
  ELSE "none"

\* performFullAuth's choice of the client identity
ClientIdentity(storedCreds, manualClientId, registration_endpoint) ==
  IF storedCreds # << >> /\ storedCreds[1].registrationResponse # << >>
  THEN "stored"
  ELSE IF manualClientId # "" THEN "manual"
  ELSE IF registration_endpoint THEN "register"
  ELSE "none"

NoTokenData == [at |-> 0, expires_in |-> 0, refresh_token |-> FALSE]

\* mutant of Expired: no credential ever counts as expired
ExpiredNever(c) == FALSE

\* mutant of Expired: a credential expiring at this very instant counts as expired
ExpiredInclusive(c) == c.expiresAt # 0 /\ c.expiresAt <= now

\* `credentials.expiresAt && credentials.expiresAt < Date.now()`
Expired(c) == c.expiresAt # 0 /\ c.expiresAt < now

\* mutant of ExpiresAt: a response without expires_in expires at once
ExpiresAtNoDefault(expires_in) == now + expires_in

\* `tokenData.expires_in ? Date.now() + tokenData.expires_in * 1000 : undefined`
ExpiresAt(expires_in) == IF expires_in # 0 THEN now + expires_in ELSE 0

\* mutant of SaveCredentials: the file holds one record, whatever the id
SaveCredentialsUnkeyed(id, c) == [k \in DOMAIN store |-> << c >>]

\* CredentialStorage.saveCredentials(serverId, credentials)
SaveCredentials(id, c) == [store EXCEPT ![id] = << c >>]

Returned(c) == [status |-> "returned", value |-> << c >>, at |-> result.at]

Threw == [status |-> "threw", value |-> << >>, at |-> result.at]

\* mutant of RefreshFailed: the catch block tries the refresh again
RefreshFailedRetry == [pc |-> "refresh_discover", did |-> << >>]

\* the catch block of authenticateOAuth2: performFullAuth starts
RefreshFailed == [pc |-> "full_discover", did |-> << "full_auth" >>]

(***************************************************************************)
(* The descriptors the connector is run on.                                *)
(***************************************************************************)
\* the `headers` a descriptor may configure
HeaderSets == [Authorization : { 0, 8 }, XApiKey : { 0, 7 }]

\* descriptors that ask for OAuth2
OAuth2Configs ==
  [transport : { "streamable-http", "sse" }, requiresAuth : { TRUE },
   authType : { "oauth2" }, headers : { NoHeaders, [Authorization |-> 0, XApiKey |-> 7] }]

\* descriptors of every transport kind, with and without static headers
AllConfigs ==
  [transport : { "stdio", "websocket" }, requiresAuth : { FALSE },
   authType : { "none" }, headers : { NoHeaders }] \cup
  [transport : { "streamable-http", "sse" }, requiresAuth : { FALSE },
   authType : { "none" }, headers : HeaderSets] \cup
  [transport : { "streamable-http", "sse" }, requiresAuth : { TRUE },
   authType : { "bearer" }, headers : { [Authorization |-> 8, XApiKey |-> 0],
                                        [Authorization |-> 8, XApiKey |-> 7] }] \cup
  OAuth2Configs

\* the descriptors of the authentication runs: one OAuth2 upstream on each
\* HTTP transport
OAuth2Descriptors ==
  [id \in AuthIds |->
     IF id = <<"a">>
     THEN [transport |-> "streamable-http", requiresAuth |-> TRUE,
           authType |-> "oauth2", headers |-> NoHeaders]
     ELSE [transport |-> "sse", requiresAuth |-> TRUE,
           authType |-> "oauth2", headers |-> [Authorization |-> 0, XApiKey |-> 7]]]

\* a connect() is under way
Connecting == \E id \in DOMAIN conn : conn[id].phase = "authenticating"

InitAuth ==
  /\ manual = [id \in AuthIds |-> IF id = <<"a">> THEN "" ELSE "manual"]
  /\ store = [id \in AuthIds |-> << >>]
  /\ now = 1
  /\ issued = 0
  /\ acquires = 0
  /\ pc = "idle"
  /\ cur = << >>
  /\ credentials = << >>
  /\ client = NoClient
  /\ tokenData = NoTokenData
  /\ done = << >>
  /\ result = [status |-> "none", value |-> << >>, at |-> 0]
  /\ config = OAuth2Descriptors
  /\ browser = SomeCallbacks
  /\ conn = [id \in AuthIds |-> NoConnection]
  /\ sent = [id |-> << >>, headers |-> NoHeaders]
  /\ cb = [listener |-> "none", timer |-> FALSE, state |-> 0, outcome |-> "none",
           query |-> [error |-> FALSE, state |-> 0, code |-> "absent"]]
  \* the gateway has not been started
  /\ argv = << >>
  /\ file = Written(<< >>)
  /\ servers = << >>
  /\ upstream = << >>
  /\ phase = "constructed"
  /\ idx = 1
  /\ clients = << >>
  /\ tools = << >>
  /\ resources = << >>
  /\ prompts = << >>
  /\ connOpen = {}
  /\ log = << >>
  /\ req = Request("none", << >>, "undefined")
  /\ resp = "none"
  /\ made = << >>
  /\ listing = {}
  /\ inflight = << >>
  /\ relayed = "none"
  /\ sd = << >>
  /\ disconnectCalls = << >>
  /\ disconnectErrors = << >>
  /\ exitCode = -1

\* time passes
Tick ==
  /\ now < MaxTime
  /\ now' = now + 1
  /\ UNCHANGED <<gatewayVars, cb, connVars, manual, store, issued, acquires, pc, cur,
                 credentials, client, tokenData, done, result>>

\* authenticateOAuth2 up to its first network call: load the stored
\* credential and test its expiry
AcquireStart ==
  /\ pc = "idle"
  /\ ~Connecting
  /\ acquires < MaxAcquires
  /\ \E id \in DOMAIN config :
       /\ conn[id].phase \in { "none", "closed", "failed" }
       /\ ConnectDispatch(config[id].transport) \in
            { "connectStreamableHTTP", "connectSSE" }
       /\ UsesOAuth2(config[id])
       /\ conn' = [conn EXCEPT ![id] = [NoConnection EXCEPT
                                          !.phase = "authenticating",
                                          !.oauth2Client = TRUE]]
       /\ cur' = id
       /\ credentials' = store[id]
       /\ IF store[id] = << >>
          THEN /\ pc' = "full_discover"
               /\ done' = << "full_auth" >>
               /\ result' = [status |-> "running", value |-> << >>, at |-> now]
          ELSE IF Expired(store[id][1])
          THEN IF store[id][1].refreshToken # 0
               THEN /\ pc' = "refresh_discover"
                    /\ done' = << >>
                    /\ result' = [status |-> "running", value |-> << >>, at |-> now]
               ELSE /\ pc' = "full_discover"
                    /\ done' = << "full_auth" >>
                    /\ result' = [status |-> "running", value |-> << >>, at |-> now]
          ELSE /\ pc' = "idle"
               /\ done' = << >>
               /\ result' = [status |-> "returned", value |-> store[id], at |-> now]
  /\ acquires' = acquires + 1
  /\ client' = NoClient
  /\ tokenData' = NoTokenData
  /\ UNCHANGED <<gatewayVars, cb, manual, store, now, issued, envVars, sent>>

\* the try block: discoverMetadata before the refresh
RefreshDiscover ==
  /\ pc = "refresh_discover"
  /\ \E metadata \in MetadataResponses :
       IF metadata.ok
       THEN /\ pc' = "refresh_call"
            /\ done' = Append(done, "refresh_discover")
       ELSE /\ pc' = RefreshFailed.pc
            /\ done' = done \o << "refresh_discover", "refresh_discover_failed" >>
                            \o RefreshFailed.did
  /\ UNCHANGED <<gatewayVars, cb, connVars, manual, store, now, issued, acquires, cur,
                 credentials, client, tokenData, result>>

\* mutant of RefreshAccessToken: a refused refresh discards the stored record
RefreshAccessTokenClearing ==
  /\ pc = "refresh_call"
  /\ \E response \in TokenResponses :
       IF response.ok
       THEN LET old == credentials[1]
                new == StoredCredentials(
                         old.clientId, old.clientSecret, issued + 1,
                         IF response.refresh_token THEN issued + 1
                         ELSE old.refreshToken,
                         ExpiresAt(response.expires_in), << >>)
            IN /\ store' = SaveCredentials(cur, new)
               /\ issued' = issued + 1
               /\ tokenData' = [at |-> now, expires_in |-> response.expires_in,
                                refresh_token |-> response.refresh_token]
               /\ done' = done \o << "refresh", "save" >>
               /\ result' = Returned(new)
               /\ pc' = "idle"
       ELSE /\ pc' = RefreshFailed.pc
            /\ done' = done \o << "refresh", "refresh_failed" >> \o RefreshFailed.did
            /\ store' = [store EXCEPT ![cur] = << >>]
            /\ UNCHANGED <<issued, tokenData, result>>
  /\ UNCHANGED <<gatewayVars, cb, connVars, manual, now, acquires, cur, credentials, client>>

\* mutant of RefreshAccessToken: the prior refresh token is not carried over
RefreshAccessTokenDroppingToken ==
  /\ pc = "refresh_call"
  /\ \E response \in TokenResponses :
       IF response.ok
       THEN LET old == credentials[1]
                new == StoredCredentials(
                         old.clientId, old.clientSecret, issued + 1,
                         IF response.refresh_token THEN issued + 1
                         ELSE 0,
                         ExpiresAt(response.expires_in), << >>)
            IN /\ store' = SaveCredentials(cur, new)
               /\ issued' = issued + 1
               /\ tokenData' = [at |-> now, expires_in |-> response.expires_in,
                                refresh_token |-> response.refresh_token]
               /\ done' = done \o << "refresh", "save" >>
               /\ result' = Returned(new)
               /\ pc' = "idle"
       ELSE /\ pc' = RefreshFailed.pc
            /\ done' = done \o << "refresh", "refresh_failed" >> \o RefreshFailed.did
            /\ UNCHANGED <<store, issued, tokenData, result>>
  /\ UNCHANGED <<gatewayVars, cb, connVars, manual, now, acquires, cur, credentials, client>>

\* the try block: OAuth2Client.refreshAccessToken
RefreshAccessToken ==
  /\ pc = "refresh_call"
  /\ \E response \in TokenResponses :
       IF response.ok
       THEN LET old == credentials[1]
                new == StoredCredentials(
                         old.clientId, old.clientSecret, issued + 1,
                         IF response.refresh_token THEN issued + 1
                         ELSE old.refreshToken,
                         ExpiresAt(response.expires_in), << >>)
            IN /\ store' = SaveCredentials(cur, new)
               /\ issued' = issued + 1
               /\ tokenData' = [at |-> now, expires_in |-> response.expires_in,
                                refresh_token |-> response.refresh_token]
               /\ done' = done \o << "refresh", "save" >>
               /\ result' = Returned(new)
               /\ pc' = "idle"
       ELSE /\ pc' = RefreshFailed.pc
            /\ done' = done \o << "refresh", "refresh_failed" >> \o RefreshFailed.did
            /\ UNCHANGED <<store, issued, tokenData, result>>
  /\ UNCHANGED <<gatewayVars, cb, connVars, manual, now, acquires, cur, credentials, client>>

\* performFullAuth: discoverMetadata, then the client identity
FullDiscover ==
  /\ pc = "full_discover"
  /\ \E metadata \in MetadataResponses :
       LET storedCreds == store[cur]
           identity == ClientIdentity(storedCreds, manual[cur],
                                      metadata.registration_endpoint)
           found == [client EXCEPT !.registration_endpoint =
                                     metadata.registration_endpoint]
       IN IF ~metadata.ok
          THEN /\ pc' = "idle"
               /\ result' = Threw
               /\ done' = done \o << "discover", "discover_failed" >>
               /\ client' = client
          ELSE IF identity = "stored"
          THEN /\ pc' = "authorize"
               /\ result' = result
               /\ done' = done \o << "discover", "stored_client" >>
               /\ client' = [found EXCEPT
                    !.clientId = storedCreds[1].registrationResponse[1].client_id,
                    !.clientSecret = storedCreds[1].registrationResponse[1].client_secret,
                    !.registrationResponse = storedCreds[1].registrationResponse]
          ELSE IF identity = "manual"
          THEN /\ pc' = "authorize"
               /\ result' = result
               /\ done' = done \o << "discover", "manual_client" >>
               /\ client' = [found EXCEPT !.clientId = manual[cur],
                                          !.clientSecret = "secret"]
          ELSE IF identity = "register"
          THEN /\ pc' = "register"
               /\ result' = result
               /\ done' = Append(done, "discover")
               /\ client' = found
          ELSE /\ pc' = "idle"
               /\ result' = Threw
               /\ done' = done \o << "discover", "no_client" >>
               /\ client' = found
  /\ UNCHANGED <<gatewayVars, cb, connVars, manual, store, now, issued, acquires, cur,
                 credentials, tokenData>>

\* performFullAuth: OAuth2Client.registerClient
RegisterClient ==
  /\ pc = "register"
  /\ \E ok \in BOOLEAN :
       IF ok
       THEN /\ pc' = "authorize"
            /\ result' = result
            /\ done' = Append(done, "register")
            /\ client' = [client EXCEPT
                 !.clientId = "dynamic", !.clientSecret = "",
                 !.registrationResponse =
                   << [client_id |-> "dynamic", client_secret |-> ""] >>]
       ELSE /\ pc' = "idle"
            /\ result' = Threw
            /\ done' = done \o << "register", "register_failed" >>
            /\ client' = client
  /\ UNCHANGED <<gatewayVars, cb, connVars, manual, store, now, issued, acquires, cur,
                 credentials, tokenData>>

\* mutant of Authorize: a timer that closes the listener is armed with it
AuthorizeArmingTimer ==
  /\ pc = "authorize"
  /\ IF cb.listener = "open"
     THEN /\ pc' = "listen_failed"
          /\ done' = done \o << "authorize", "listen_failed" >>
          /\ cb' = cb
     ELSE /\ pc' = "waiting"
          /\ done' = Append(done, "authorize")
          /\ cb' = [listener |-> "open", timer |-> TRUE, state |-> acquires,
                    outcome |-> "pending",
                    query |-> [error |-> FALSE, state |-> 0, code |-> "absent"]]
  /\ UNCHANGED <<gatewayVars, connVars, manual, store, now, issued, acquires, cur,
                 credentials, client, tokenData, result>>

\* OAuth2Client.authorize up to the wait: the state is generated, the
\* listener is bound to port 3000 and the browser is opened.  While the
\* listener of an earlier authorization is still open the port is taken, and
\* this authorization never gets a callback.
Authorize ==
  /\ pc = "authorize"
  /\ IF cb.listener = "open"
     THEN /\ pc' = "listen_failed"
          /\ done' = done \o << "authorize", "listen_failed" >>
          /\ cb' = cb
     ELSE /\ pc' = "waiting"
          /\ done' = Append(done, "authorize")
          /\ cb' = [listener |-> "open", timer |-> FALSE, state |-> acquires,
                    outcome |-> "pending",
                    query |-> [error |-> FALSE, state |-> 0, code |-> "absent"]]
  /\ UNCHANGED <<gatewayVars, connVars, manual, store, now, issued, acquires, cur,
                 credentials, client, tokenData, result>>

\* a GET /callback request reaches the open listener; the first one settles
\* the wait of startCallbackServer, later ones find the promise settled
Callback ==
  /\ cb.listener = "open"
  /\ \E query \in browser :
       LET outcome == Classify(query, cb.state)
           settles == cb.outcome = "pending"
       IN /\ cb' = [listener |-> IF outcome = "code" THEN "open" ELSE "closed",
                    timer |-> (outcome = "code") /\ (cb.timer \/ ClosesLater(outcome)),
                    state |-> cb.state,
                    outcome |-> IF settles THEN outcome ELSE cb.outcome,
                    query |-> IF settles THEN query ELSE cb.query]
          /\ IF ~settles
             THEN UNCHANGED <<pc, done, result>>
             ELSE IF outcome = "code"
             THEN /\ pc' = "exchange"
                  /\ done' = Append(done, "callback")
                  /\ result' = result
             ELSE /\ pc' = "idle"
                  /\ done' = Append(done, outcome)
                  /\ result' = Threw
  /\ UNCHANGED <<gatewayVars, connVars, manual, store, now, issued, acquires, cur,
                 credentials, client, tokenData>>

\* the timer set by a successful callback fires
CloseTimer ==
  /\ cb.timer
  /\ cb.listener = "open"
  /\ cb' = [cb EXCEPT !.listener = "closed", !.timer = FALSE]
  /\ UNCHANGED <<gatewayVars, connVars, manual, store, now, issued, acquires, pc,
                 cur, credentials, client, tokenData, done, result>>

\* mutant of ExchangeCodeForToken: a failed exchange is tried a second time
ExchangeCodeForTokenRetrying ==
  /\ pc = "exchange"
  /\ \E response \in TokenResponses :
       IF response.ok
       THEN LET saved == StoredCredentials(
                           client.clientId, client.clientSecret, issued + 1,
                           IF response.refresh_token THEN issued + 1 ELSE 0,
                           ExpiresAt(response.expires_in), << >>)
            IN /\ store' = SaveCredentials(cur, saved)
               /\ issued' = issued + 1
               /\ tokenData' = [at |-> now, expires_in |-> response.expires_in,
                                refresh_token |-> response.refresh_token]
               /\ done' = done \o << "exchange", "save" >>
               /\ result' = Returned([saved EXCEPT !.registrationResponse =
                                                     client.registrationResponse])
               /\ pc' = "idle"
       ELSE /\ pc' = IF "exchange" \in Range(done) THEN "idle" ELSE "exchange"
            /\ result' = IF "exchange" \in Range(done) THEN Threw ELSE result
            /\ done' = done \o << "exchange", "exchange_failed" >>
            /\ UNCHANGED <<store, issued, tokenData>>
  /\ UNCHANGED <<gatewayVars, cb, connVars, manual, now, acquires, cur, credentials, client>>

\* OAuth2Client.authorize: exchangeCodeForToken, save, and performFullAuth's
\* return with the registration record put on the returned object
ExchangeCodeForToken ==
  /\ pc = "exchange"
  /\ \E response \in TokenResponses :
       IF response.ok
       THEN LET saved == StoredCredentials(
                           client.clientId, client.clientSecret, issued + 1,
                           IF response.refresh_token THEN issued + 1 ELSE 0,
                           ExpiresAt(response.expires_in), << >>)
            IN /\ store' = SaveCredentials(cur, saved)
               /\ issued' = issued + 1
               /\ tokenData' = [at |-> now, expires_in |-> response.expires_in,
                                refresh_token |-> response.refresh_token]
               /\ done' = done \o << "exchange", "save" >>
               /\ result' = Returned([saved EXCEPT !.registrationResponse =
                                                     client.registrationResponse])
               /\ pc' = "idle"
       ELSE /\ pc' = "idle"
            /\ result' = Threw
            /\ done' = done \o << "exchange", "exchange_failed" >>
            /\ UNCHANGED <<store, issued, tokenData>>
  /\ UNCHANGED <<gatewayVars, cb, connVars, manual, now, acquires, cur, credentials, client>>

\* connect() of a descriptor that does not ask for OAuth2
Connect ==
  /\ pc = "idle"
  /\ ~Connecting
  /\ \E id \in DOMAIN config :
       LET cfg == config[id]
           branch == ConnectDispatch(cfg.transport)
       IN /\ conn[id].phase \in { "none", "closed", "failed" }
          /\ ~(branch \in { "connectStreamableHTTP", "connectSSE" } /\ UsesOAuth2(cfg))
          /\ IF branch \in { "UnsupportedTransport", "UnknownTransport" }
             THEN conn' = [conn EXCEPT ![id] = [NoConnection EXCEPT
                                                 !.phase = "failed",
                                                 !.error = branch]]
             ELSE \E ok \in BOOLEAN :
                    conn' = [conn EXCEPT ![id] = Transported(cfg, 0, ok)]
  /\ UNCHANGED <<gatewayVars, cb, manual, store, now, issued, acquires, pc, cur,
                 credentials, client, tokenData, done, result, envVars, sent>>

\* connectStreamableHTTP / connectSSE after authenticateOAuth2 has ended
ConnectTransport ==
  /\ pc = "idle"
  /\ Connecting
  /\ conn[cur].phase = "authenticating"
  /\ IF result.status = "returned"
     THEN \E ok \in BOOLEAN :
            conn' = [conn EXCEPT ![cur] =
                       Transported(config[cur], result.value[1].accessToken, ok)]
     ELSE conn' = [conn EXCEPT ![cur] = [@ EXCEPT !.phase = "failed",
                                                  !.error = "AuthError"]]
  /\ UNCHANGED <<gatewayVars, cb, manual, store, now, issued, acquires, pc, cur,
                 credentials, client, tokenData, done, result, envVars, sent>>

\* one outbound request over an open connection
Send ==
  /\ \E id \in DOMAIN conn :
       /\ conn[id].phase = "open"
       /\ sent' = [id |-> id, headers |-> Outbound(conn[id])]
  /\ UNCHANGED <<gatewayVars, cb, manual, store, now, issued, acquires, pc, cur,
                 credentials, client, tokenData, done, result, envVars, conn>>

\* UniversalMCPClient.disconnect
Disconnect ==
  /\ \E id \in DOMAIN conn :
       /\ conn[id].phase = "open"
       /\ conn' = [conn EXCEPT ![id] = [@ EXCEPT !.phase = "closed"]]
  /\ UNCHANGED <<gatewayVars, cb, manual, store, now, issued, acquires, pc, cur,
                 credentials, client, tokenData, done, result, envVars, sent>>

\* UniversalMCPClient.clearCredentials on a client other than the one that
\* authenticated last
ClearCredentials ==
  /\ pc = "idle"
  /\ \E id \in DOMAIN conn :
       /\ id # cur
       /\ conn[id].oauth2Client
       /\ store[id] # << >>
       /\ store' = [store EXCEPT ![id] = << >>]
  /\ UNCHANGED <<gatewayVars, cb, manual, now, issued, acquires, pc, cur,
                 credentials, client, tokenData, done, result, connVars>>

NextAuth ==
  \/ Tick
  \/ AcquireStart
  \/ RefreshDiscover
  \/ RefreshAccessToken
  \/ FullDiscover
  \/ RegisterClient
  \/ Authorize
  \/ Callback
  \/ CloseTimer
  \/ ExchangeCodeForToken
  \/ ConnectTransport
  \/ Send
  \/ Disconnect
  \/ ClearCredentials

\* the upstream of the connector runs
ConnIds == { <<"a">> }

\* what auth-credentials.json may hold for an upstream when the program
\* starts: nothing, or a credential that carries a registration record
StoredAtStart ==
  { << >> } \cup
  { << StoredCredentials("dynamic", "", 9, refreshToken, 1,
         << [client_id |-> "dynamic", client_secret |-> ""] >>) >> :
      refreshToken \in { 0, 9 } }

\* one UniversalMCPClient of any descriptor, before connect
InitConn ==
  /\ manual \in [ConnIds -> { "", "manual" }]
  /\ store \in [ConnIds -> StoredAtStart]
  /\ now = 1
  /\ issued = 0
  /\ acquires = 0
  /\ pc = "idle"
  /\ cur = << >>
  /\ credentials = << >>
  /\ client = NoClient
  /\ tokenData = NoTokenData
  /\ done = << >>
  /\ result = [status |-> "none", value |-> << >>, at |-> 0]
  /\ config \in [ConnIds -> AllConfigs]
  /\ browser = Callbacks
  /\ conn = [id \in ConnIds |-> NoConnection]
  /\ sent = [id |-> << >>, headers |-> NoHeaders]
  /\ cb = [listener |-> "none", timer |-> FALSE, state |-> 0, outcome |-> "none",
           query |-> [error |-> FALSE, state |-> 0, code |-> "absent"]]
  \* the gateway has not been started
  /\ argv = << >>
  /\ file = Written(<< >>)
  /\ servers = << >>
  /\ upstream = << >>
  /\ phase = "constructed"
  /\ idx = 1
  /\ clients = << >>
  /\ tools = << >>
  /\ resources = << >>
  /\ prompts = << >>
  /\ connOpen = {}
  /\ log = << >>
  /\ req = Request("none", << >>, "undefined")
  /\ resp = "none"
  /\ made = << >>
  /\ listing = {}
  /\ inflight = << >>
  /\ relayed = "none"
  /\ sd = << >>
  /\ disconnectCalls = << >>
  /\ disconnectErrors = << >>
  /\ exitCode = -1

NextConn ==
  \/ Tick
  \/ Connect
  \/ AcquireStart
  \/ RefreshDiscover
  \/ RefreshAccessToken
  \/ FullDiscover
  \/ RegisterClient
  \/ Authorize
  \/ Callback
  \/ CloseTimer
  \/ ExchangeCodeForToken
  \/ ConnectTransport
  \/ Send
  \/ Disconnect

SpecConn == InitConn /\ [][NextConn]_vars

\* the connector runs in which the callback listener is followed to its
\* end: an OAuth2 upstream with no manually configured client, or an upstream
\* that needs no authorization at all
ListenConfigs ==
  { cfg \in AllConfigs :
      \/ cfg.transport = "stdio"
      \/ cfg.transport = "streamable-http" /\ UsesOAuth2(cfg) /\ cfg.headers = NoHeaders }

InitListen ==
  /\ InitConn
  /\ manual[<<"a">>] = ""
  /\ config[<<"a">>] \in ListenConfigs

SpecListen == InitListen /\ [][NextConn]_vars

\* the timer of a successful callback does fire
LiveSpecListen == SpecListen /\ WF_vars(CloseTimer)

SpecAuth == InitAuth /\ [][NextAuth]_vars

NextAgg == InitializeLoad \/ InitializeServer \/ InitializeDone

InitAggregation == InitAgg(WrittenFiles(Ids), AllBehaviours, {}, {})

SpecAgg == InitAggregation /\ [][NextAgg]_vars

Init == InitAgg(WrittenFiles(ServeIds), ServeBehaviours, {}, {})

\* the process from main to its exit, without downstream requests
InitMain == InitAgg(WrittenFiles(ServeIds), ServeBehaviours, {}, PortArguments)

NextMain ==
  \/ Main
  \/ InitializeLoad
  \/ InitializeServer
  \/ InitializeDone
  \/ StartListen
  \/ Signal
  \/ SignalAgain
  \/ ShutdownStep
  \/ ShutdownFinish

SpecMain == InitMain /\ [][NextMain]_vars

\* startup of a gateway over any configuration file
InitLoad == InitAgg(AnyFiles, ServeBehaviours, {}, {})

NextLoad == InitializeLoad \/ InitializeServer \/ InitializeDone \/ StartListen

SpecLoad == InitLoad /\ [][NextLoad]_vars

\* the initialize pass of a gateway over described upstreams
InitAggConn == InitAgg(WrittenFiles(ServeIds), ServeBehaviours, AggConfigs, {})

SpecAggConn == InitAggConn /\ [][NextAgg]_vars

Next ==
  \/ InitializeLoad
  \/ InitializeServer
  \/ InitializeDone
  \/ StartListen
  \/ CallTool
  \/ ReadResource
  \/ GetPrompt
  \/ ListTools
  \/ ListResources
  \/ ListPrompts
  \/ UpstreamReply
  \/ UpstreamDrop
  \/ Signal
  \/ ShutdownStep
  \/ ShutdownFinish

Spec == Init /\ [][Next]_vars

(***************************************************************************)
(* Properties of the aggregation pass.                                     *)
(***************************************************************************)
\* the upstreams whose connect() succeeded
Connected == { id \in Range(servers) : upstream[id].connects }

\* the original identifiers a list call returned to the aggregator
Listed(outcome) == IF outcome.cap /\ ~outcome.throws THEN outcome.items ELSE {}

InitializeReturned == phase \in { "initialized", "serving", "exited" }

\* removing a known prefix from a namespaced identifier
StripPrefix(key, prefix) ==
  IF Len(key) >= Len(prefix) /\ SubSeq(key, 1, Len(prefix)) = prefix
  THEN SubSeq(key, Len(prefix) + 1, Len(key))
  ELSE key

Contains(str, delim) ==
  \E i \in 1..Len(str) :
    i + Len(delim) - 1 <= Len(str) /\ SubSeq(str, i, i + Len(delim) - 1) = delim

\* C1: after initialize, two connected upstreams with distinct ids that both
\* list a tool of the same original name have two distinct registry keys,
\* id__name each, and the entry under each key carries its own upstream's id
\* and the original name.
C1_SameNameResolvesToOwnUpstream ==
  InitializeReturned =>
    \A a \in Connected, b \in Connected :
      a # b =>
        \A n \in Listed(upstream[a].tools) \cap Listed(upstream[b].tools) :
          LET ka == a \o <<"_", "_">> \o n
              kb == b \o <<"_", "_">> \o n
          IN /\ ka # kb
             /\ ka \in DOMAIN tools /\ kb \in DOMAIN tools
             /\ tools[ka].serverId = a /\ tools[ka].originalName = n
             /\ tools[kb].serverId = b /\ tools[kb].originalName = n

\* C2: after initialize, every enumerated (upstream id, original identifier)
\* pair has a registry key of its own: two different pairs never share a key,
\* and the entry under a pair's key is that pair's entry (never another
\* upstream's), for tools, prompts and resources.
C2_NamespacedKeysUnique ==
  InitializeReturned =>
    /\ \A a \in Connected, b \in Connected :
         /\ \A n \in Listed(upstream[a].tools), m \in Listed(upstream[b].tools) :
              <<a, n>> # <<b, m>> =>
                a \o <<"_", "_">> \o n # b \o <<"_", "_">> \o m
         /\ \A n \in Listed(upstream[a].prompts), m \in Listed(upstream[b].prompts) :
              <<a, n>> # <<b, m>> =>
                a \o <<"_", "_">> \o n # b \o <<"_", "_">> \o m
         /\ \A u \in Listed(upstream[a].resources), w \in Listed(upstream[b].resources) :
              <<a, u>> # <<b, w>> =>
                a \o <<":", "/", "/">> \o u # b \o <<":", "/", "/">> \o w
    /\ \A a \in Connected :
         /\ \A n \in Listed(upstream[a].tools) :
              tools[a \o <<"_", "_">> \o n].serverId = a
         /\ \A n \in Listed(upstream[a].prompts) :
              prompts[a \o <<"_", "_">> \o n].serverId = a
         /\ \A u \in Listed(upstream[a].resources) :
              resources[a \o <<":", "/", "/">> \o u].serverId = a

\* the connect failures logged for `id`
FailuresLogged(id) ==
  Cardinality({ i \in DOMAIN log : log[i] = Event("connect_failed", id) })

C7_StripRecoversOriginal ==
  /\ \A k \in DOMAIN tools :
       ~Contains(tools[k].originalName, <<"_", "_">>) =>
         /\ tools[k].name = k
         /\ StripPrefix(k, tools[k].serverId \o <<"_", "_">>) = tools[k].originalName
  /\ \A k \in DOMAIN prompts :
       ~Contains(prompts[k].originalName, <<"_", "_">>) =>
         /\ prompts[k].name = k
         /\ StripPrefix(k, prompts[k].serverId \o <<"_", "_">>) = prompts[k].originalName
  /\ \A k \in DOMAIN resources :
       ~Contains(resources[k].originalUri, <<":", "/", "/">>) =>
         /\ resources[k].uri = k
         /\ StripPrefix(k, resources[k].serverId \o <<":", "/", "/">>)
              = resources[k].originalUri

\* C7 witness: a tool, a prompt and a resource without the delimiter in their
\* original identifiers were aggregated
C7_Witness ==
  /\ \E k \in DOMAIN tools : ~Contains(tools[k].originalName, <<"_", "_">>)
  /\ \E k \in DOMAIN prompts : ~Contains(prompts[k].originalName, <<"_", "_">>)
  /\ \E k \in DOMAIN resources :
       ~Contains(resources[k].originalUri, <<":", "/", "/">>)

(***************************************************************************)
(* Properties of request dispatch.                                         *)
(***************************************************************************)
\* a step of one of the three dispatching handlers
HandlerStep == CallTool \/ ReadResource \/ GetPrompt

\* whether the namespaced identifier of request r is in its registry
InRegistry(r) ==
  \/ r.kind = "tools/call" /\ r.name \in DOMAIN tools
  \/ r.kind = "resources/read" /\ r.name \in DOMAIN resources
  \/ r.kind = "prompts/get" /\ r.name \in DOMAIN prompts

\* the upstream id stored in the registry entry request r resolves to
Owner(r) ==
  CASE r.kind = "tools/call" -> tools[r.name].serverId
    [] r.kind = "resources/read" -> resources[r.name].serverId
    [] r.kind = "prompts/get" -> prompts[r.name].serverId

\* the handler made one call, on the handle of `server`, with this method,
\* identifier and arguments
OneCall(server, method, name, args) ==
  /\ Len(made) = 1
  /\ made[1].server = server
  /\ made[1].method = method
  /\ made[1].name = name
  /\ made[1].args = args

\* C3 as stated: a request whose identifier is in the registry makes exactly
\* one call, on the handle of the entry's owner, with the entry's original
\* identifier and the caller's arguments unchanged.
C3_ForwardsArgumentsUnchanged ==
  /\ (req.kind = "tools/call" /\ req.name \in DOMAIN tools) =>
       OneCall(tools[req.name].serverId, "callTool",
               tools[req.name].originalName, req.args)
  /\ (req.kind = "resources/read" /\ req.name \in DOMAIN resources) =>
       OneCall(resources[req.name].serverId, "readResource",
               resources[req.name].originalUri, req.args)
  /\ (req.kind = "prompts/get" /\ req.name \in DOMAIN prompts) =>
       OneCall(prompts[req.name].serverId, "getPrompt",
               prompts[req.name].originalName, req.args)

\* C3 as amended: the same, except that a call-tool request that carries no
\* arguments is forwarded with an empty arguments object.
C3_ForwardsToOwner ==
  /\ (req.kind = "tools/call" /\ req.name \in DOMAIN tools) =>
       OneCall(tools[req.name].serverId, "callTool",
               tools[req.name].originalName,
               IF req.args = "undefined" THEN "{}" ELSE req.args)
  /\ (req.kind = "resources/read" /\ req.name \in DOMAIN resources) =>
       OneCall(resources[req.name].serverId, "readResource",
               resources[req.name].originalUri, req.args)
  /\ (req.kind = "prompts/get" /\ req.name \in DOMAIN prompts) =>
       OneCall(prompts[req.name].serverId, "getPrompt",
               prompts[req.name].originalName, req.args)

\* C3 witness: upstreams "a" and "a_" both connected and both list tool "a";
\* a__a was invoked and "a" was called on the handle of "a"
C3_Witness ==
  /\ Range(clients) = { <<"a">>, <<"a", "_">> }
  /\ <<"a", "_", "_", "_", "a">> \in DOMAIN tools
  /\ req = Request("tools/call", <<"a", "_", "_", "a">>, "{x:1}")
  /\ made = << [server |-> <<"a">>, method |-> "callTool", name |-> <<"a">>,
                args |-> "{x:1}", open |-> TRUE] >>

\* C4: a call-tool, read-resource or get-prompt request whose identifier is
\* not in the registry is answered with UnknownEntry; its handler makes no
\* upstream call, leaves the registries, the connection map and the
\* connections as they were, and the gateway goes on accepting requests.
C4_UnknownEntryRefused ==
  [][ (HandlerStep /\ ~InRegistry(req')) =>
        /\ resp' = "UnknownEntry"
        /\ made' = << >>
        /\ UNCHANGED <<tools, resources, prompts, clients, connOpen, inflight>>
        /\ exitCode' = -1
        /\ Accepting' ]_vars

\* C4 witness: with a non-empty registry and a stored handle, an identifier
\* that was never inserted has been refused
C4_Witness ==
  /\ tools # << >>
  /\ resources # << >>
  /\ clients # << >>
  /\ req.kind = "resources/read"
  /\ req.name \notin DOMAIN resources
  /\ resp = "UnknownEntry"
  /\ made = << >>

\* C5: a request whose registry entry belongs to an upstream whose connection
\* has been closed is answered with UpstreamUnavailable, and no call is made on
\* the closed handle.
C5_ClosedUpstreamUnavailable ==
  [][ (HandlerStep /\ InRegistry(req') /\ Owner(req') \notin connOpen) =>
        /\ resp' = "UpstreamUnavailable"
        /\ made' = << >> ]_vars

(***************************************************************************)
(* Properties of authentication, under SpecAuth.                           *)
(***************************************************************************)
Count(ev) == Cardinality({ i \in DOMAIN done : done[i] = ev })

Has(ev) == Count(ev) > 0

\* the run started from a stored credential that was not expired when tested
LoadedUnexpired ==
  /\ result.status # "none"
  /\ credentials # << >>
  /\ (credentials[1].expiresAt = 0 \/ credentials[1].expiresAt >= result.at)

\* the run started from an expired stored credential carrying a refresh token
LoadedExpiredWithRefreshToken ==
  /\ result.status # "none"
  /\ credentials # << >>
  /\ credentials[1].expiresAt # 0
  /\ credentials[1].expiresAt < result.at
  /\ credentials[1].refreshToken # 0

Ended == pc = "idle" /\ result.status \in { "returned", "threw" }

NetworkEvents ==
  { "refresh_discover", "refresh", "full_auth", "discover", "register",
    "authorize", "exchange", "save" }

\* C8: when the stored credential of the upstream is not expired, Acquire
\* returns that very credential, having made no discovery, registration,
\* refresh, authorization or exchange call and no write to the store.
C8_UnexpiredReturnedAsIs ==
  LoadedUnexpired =>
    /\ pc = "idle"
    /\ result.status = "returned"
    /\ result.value = credentials
    /\ done = << >>
    /\ \A ev \in NetworkEvents : ~Has(ev)
    /\ store[cur] = credentials

C8_Witness ==
  /\ LoadedUnexpired
  /\ credentials[1].expiresAt # 0
  /\ result.status = "returned"
  /\ acquires = 2

\* C9 as stated: an expired credential with a refresh token leads to exactly
\* one refresh call, and when it succeeds the returned credential has an
\* expiresAt in the future and no full authorization happened.
C9_ExactlyOneRefreshFutureExpiry ==
  (LoadedExpiredWithRefreshToken /\ Ended) =>
    /\ Count("refresh") = 1
    /\ (~Has("refresh_failed") =>
          /\ result.status = "returned"
          /\ result.value[1].expiresAt > tokenData.at
          /\ ~Has("full_auth"))

\* C9 amended: an expired credential with a refresh token leads to one
\* metadata discovery and, only when that discovery succeeds, to exactly one
\* refresh call; when the refresh call succeeds Acquire returns the refreshed
\* and saved credential, without full authorization, whose expiresAt is the
\* response's instant plus expires_in when the response carries expires_in,
\* and absent otherwise.
C9_RefreshAfterDiscovery ==
  LoadedExpiredWithRefreshToken =>
    /\ Count("refresh") <= 1
    /\ Count("refresh_discover") <= 1
    /\ (Has("refresh") => Has("refresh_discover") /\ ~Has("refresh_discover_failed"))
    /\ (Ended => Count("refresh_discover") = 1)
    /\ ((Ended /\ ~Has("refresh_discover_failed")) => Count("refresh") = 1)
    /\ ((Has("refresh") /\ ~Has("refresh_failed")) =>
          /\ Ended
          /\ result.status = "returned"
          /\ ~Has("full_auth") /\ ~Has("authorize") /\ ~Has("exchange")
          /\ result.value[1].accessToken # credentials[1].accessToken
          /\ result.value[1].expiresAt =
               (IF tokenData.expires_in # 0
                THEN tokenData.at + tokenData.expires_in ELSE 0)
          /\ (tokenData.expires_in # 0 => result.value[1].expiresAt > tokenData.at)
          /\ tokenData.at >= result.at
          /\ store[cur] = result.value)

C9_Witness ==
  /\ LoadedExpiredWithRefreshToken
  /\ Ended
  /\ Has("refresh")
  /\ ~Has("refresh_failed")
  /\ tokenData.expires_in # 0
  /\ result.status = "returned"

\* the failures that end a full authorization
FullAuthFailures ==
  { "discover_failed", "no_client", "register_failed", "AuthorizationDenied",
    "StateMismatch", "MissingCode", "exchange_failed" }

RefreshAttemptFailed == Has("refresh_discover_failed") \/ Has("refresh_failed")

\* C10: when the refresh attempt fails, in discovery or in the refresh
\* request, full authorization runs exactly once and no second refresh is
\* tried; a failure of that full authorization is the failure of Acquire.
C10_RefreshFailureFallsBackOnce ==
  (LoadedExpiredWithRefreshToken /\ RefreshAttemptFailed) =>
    /\ Count("full_auth") = 1
    /\ Count("refresh") <= 1
    /\ Count("refresh_discover") = 1
    /\ \A i, j \in DOMAIN done :
         (done[i] = "full_auth" /\ i < j) =>
           done[j] \notin { "refresh", "refresh_discover", "full_auth" }
    /\ Count("discover") <= 1 /\ Count("authorize") <= 1 /\ Count("exchange") <= 1
    /\ (Ended =>
          /\ (result.status = "threw") = (\E ev \in FullAuthFailures : Has(ev))
          /\ (result.status = "returned") =
               (Has("exchange") /\ ~Has("exchange_failed") /\ Has("save")))

C10_Witness ==
  /\ LoadedExpiredWithRefreshToken
  /\ Has("refresh_failed")
  /\ Ended
  /\ result.status = "threw"
  /\ Has("exchange_failed")

(***************************************************************************)
(* Properties of the connector and of full authorization, under SpecConn   *)
(* (one upstream of any descriptor) and SpecAuth (two OAuth2 upstreams).   *)
(***************************************************************************)
\* the bearer installed on the connection of upstream id
Bearer(id) == conn[id].hook.Authorization

\* the transport of the upstream that authenticated last was built in that run
BuiltThisRun ==
  /\ cur # << >>
  /\ conn[cur].oauth2Client
  /\ conn[cur].attempts = 1

\* a request has just been sent over the connection of the upstream that
\* authenticated last
SentOnCur == sent' # sent /\ sent'.id = cur

\* the bearer of a connection is the token of the credential the run
\* returned; it is the loaded credential's token only if that credential was
\* not expired when loaded, and after an expired load it was issued by a
\* refresh or an exchange of this run
BearerFromThisConnect ==
  BuiltThisRun =>
    /\ result.status = "returned"
    /\ Bearer(cur) = result.value[1].accessToken
    /\ Bearer(cur) # 0
    /\ (credentials # << >> /\ Bearer(cur) = credentials[1].accessToken)
         => LoadedUnexpired
    /\ LoadedExpiredWithRefreshToken =>
         /\ Bearer(cur) # credentials[1].accessToken
         /\ Bearer(cur) = issued
         /\ \/ Has("refresh") /\ ~Has("refresh_failed")
            \/ Has("exchange") /\ ~Has("exchange_failed")

\* C11: an expired credential with a refresh token is never used directly:
\* the bearer of a connection comes from a credential that was unexpired
\* when loaded or from a refresh or full authorization of that connect, and
\* no request carries the expired access token.
C11_ExpiredTokenNeverUsed ==
  /\ []BearerFromThisConnect
  /\ [][(SentOnCur /\ LoadedExpiredWithRefreshToken) =>
          /\ sent'.headers.Authorization # credentials[1].accessToken
          /\ sent'.headers.Authorization = result.value[1].accessToken]_vars

C11_Witness ==
  /\ LoadedExpiredWithRefreshToken
  /\ Has("refresh")
  /\ ~Has("refresh_failed")
  /\ conn[cur].phase = "open"
  /\ sent.id = cur
  /\ sent.headers.Authorization = issued
  /\ issued # credentials[1].accessToken

\* a dynamic-registration record was stored when the run began
StoredRecord == credentials # << >> /\ credentials[1].registrationResponse # << >>

\* full authorization has got the metadata and chosen (or failed to choose)
\* the client identity
IdentityChosen == Has("full_auth") /\ Has("discover") /\ ~Has("discover_failed")

\* C12: full authorization takes the client identity from the stored
\* registration record if there is one, else from the descriptor's clientId
\* if there is one, else from dynamic registration if the metadata have a
\* registration endpoint; a lower source is never used while a higher one is
\* there, and with none of them it fails before the browser is opened.
C12_ClientIdentityPriority ==
  IdentityChosen =>
    /\ StoredRecord =>
         /\ Has("stored_client") /\ ~Has("manual_client") /\ ~Has("register")
         /\ client.clientId = credentials[1].registrationResponse[1].client_id
         /\ client.registrationResponse = credentials[1].registrationResponse
    /\ (~StoredRecord /\ manual[cur] # "") =>
         /\ Has("manual_client") /\ ~Has("stored_client") /\ ~Has("register")
         /\ client.clientId = manual[cur]
    /\ (~StoredRecord /\ manual[cur] = "" /\ client.registration_endpoint) =>
         /\ ~Has("stored_client") /\ ~Has("manual_client") /\ ~Has("no_client")
         /\ pc = "register" \/ Has("register")
         /\ Has("authorize") => client.clientId = "dynamic"
    /\ (~StoredRecord /\ manual[cur] = "" /\ ~client.registration_endpoint) =>
         /\ Has("no_client")
         /\ ~Has("stored_client") /\ ~Has("manual_client") /\ ~Has("register")
         /\ ~Has("authorize")
         /\ pc = "idle" /\ result.status = "threw"
         /\ cb.state # acquires

C12_Witness ==
  /\ IdentityChosen
  /\ StoredRecord
  /\ manual[cur] # ""
  /\ client.registration_endpoint
  /\ Has("authorize")
  /\ client.clientId = "dynamic"

\* the run was a full authorization that registered the client dynamically
\* and succeeded
RegisteredAndAuthorized ==
  /\ pc = "idle"
  /\ result.status = "returned"
  /\ Has("register")
  /\ ~Has("register_failed")
  /\ Has("exchange")

\* the run refreshed a credential that carried a registration record
RefreshedStoredRecord ==
  /\ pc = "idle"
  /\ result.status = "returned"
  /\ StoredRecord
  /\ Has("refresh")
  /\ ~Has("refresh_failed")

\* C13: after a successful full authorization that registered dynamically
\* the stored credential carries the registration record (so that the next
\* full authorization reuses it), and a successful refresh keeps the record
\* of the credential it refreshes.
C13_RegistrationRecordPersisted ==
  /\ RegisteredAndAuthorized =>
       /\ store[cur] # << >>
       /\ store[cur][1].registrationResponse = client.registrationResponse
       /\ store[cur][1].registrationResponse # << >>
  /\ RefreshedStoredRecord =>
       /\ store[cur] # << >>
       /\ store[cur][1].registrationResponse = credentials[1].registrationResponse

\* the wait of startCallbackServer has been settled
Settled == cb.outcome \notin { "none", "pending" }

\* the listener belongs to the authorization of the current run
OwnListener == cb.state = acquires /\ cb.listener # "none"

\* what the claim says of a settled wait, read off the query that settled it
SettledAsClaimed ==
  Settled =>
    /\ cb.outcome \in { "AuthorizationDenied", "StateMismatch", "MissingCode", "code" }
    /\ cb.query.error => cb.outcome = "AuthorizationDenied"
    /\ (~cb.query.error /\ cb.query.state # cb.state) => cb.outcome = "StateMismatch"
    /\ (~cb.query.error /\ cb.query.state = cb.state /\ cb.query.code = "absent")
         => cb.outcome = "MissingCode"
    /\ (~cb.query.error /\ cb.query.state = cb.state /\ cb.query.code # "absent")
         => cb.outcome = "code"
    /\ OwnListener =>
         IF cb.outcome = "code"
         THEN Has("callback") /\ pc # "waiting"
         ELSE /\ Count(cb.outcome) = 1
              /\ pc = "idle" /\ result.status = "threw"
              /\ ~Has("callback") /\ ~Has("exchange")

\* C14: the callback handler fails with AuthorizationDenied when the
\* provider reports an error, else with StateMismatch when the state is not
\* the generated one, else with MissingCode when there is no code, and
\* otherwise succeeds with the code; one of the four settles the wait, once.
C14_CallbackClassified ==
  /\ []SettledAsClaimed
  /\ []((OwnListener /\ cb.outcome = "pending") => pc = "waiting")
  /\ [][(Settled /\ cb'.state = cb.state) =>
          (cb'.outcome = cb.outcome /\ cb'.query = cb.query)]_vars

C14_Witness ==
  /\ OwnListener
  /\ cb.outcome = "StateMismatch"
  /\ cb.query.state # 0
  /\ cb.query.code = "code"
  /\ result.status = "threw"

\* the run has reached the token exchange of a full authorization
Exchanging == pc = "exchange" \/ Has("exchange")

\* C15: a token exchange is made, and a credential persisted by a full
\* authorization, only after a callback that carries the state generated
\* for that authorization and an authorization code; a callback with
\* another state or none never leads to an exchange.
C15_ExchangeOnlyAfterMatchingState ==
  /\ Exchanging =>
       /\ OwnListener
       /\ cb.outcome = "code"
       /\ cb.query.state = cb.state
       /\ cb.query.state = acquires
       /\ cb.query.code # "absent"
       /\ Has("authorize") /\ Has("callback")
       /\ Count("exchange") <= 1
  /\ (Has("full_auth") /\ Has("save")) => (Has("exchange") /\ ~Has("exchange_failed"))
  /\ (OwnListener /\ Settled /\ cb.query.state # cb.state) =>
       /\ pc = "idle"
       /\ result.status = "threw"
       /\ ~Exchanging
       /\ ~Has("save")
       /\ store[cur] = credentials

C15_Witness ==
  /\ acquires = 2
  /\ OwnListener
  /\ cb.query.state = 2
  /\ pc = "idle"
  /\ result.status = "returned"
  /\ Has("exchange")
  /\ Has("save")
  /\ store[cur] # << >>

\* the listener of the authorization whose wait has ended is closed
TornDown == Settled => cb.listener = "closed"

\* C16: once the authorization wait has ended (valid callback, provider
\* error, state mismatch or missing code) the callback listener is eventually
\* closed, and once closed it stays closed, whether authorize then returns a
\* credential or raises, a failed token exchange included; a listener is
\* replaced only by a later authorization, and only after it was closed.
C16_ListenerTornDown ==
  /\ Settled ~> (Settled /\ cb.listener = "closed")
  /\ [](cb.outcome \in { "AuthorizationDenied", "StateMismatch", "MissingCode" } => TornDown)
  /\ [][(cb.listener = "closed" /\ cb'.state = cb.state) => cb'.listener = "closed"]_vars
  /\ [][cb'.state # cb.state => cb.listener # "open"]_vars

C16_Witness ==
  /\ cb.outcome = "code"
  /\ OwnListener
  /\ cb.listener = "closed"
  /\ pc = "idle"
  /\ result.status = "threw"
  /\ Has("exchange_failed")

\* the upstreams whose descriptor names the websocket transport
WebSocketUpstreams == { id \in DOMAIN config : config[id].transport = "websocket" }

\* the for-loop of initialize has been through the upstream
Tried(id) == \E i \in 1..(idx - 1) : servers[i] = id

\* no entry of any registry is owned by the upstream
OwnsNothing(id) ==
  /\ \A k \in DOMAIN tools : tools[k].serverId # id
  /\ \A k \in DOMAIN resources : resources[k].serverId # id
  /\ \A k \in DOMAIN prompts : prompts[k].serverId # id

\* C17: connect on a descriptor of the websocket transport fails at once
\* with UnsupportedTransport: no transport is created, no OAuth2 client and
\* no authentication is started (also when the descriptor asks for OAuth2),
\* no connection attempt is made; the gateway logs the failure, keeps the
\* upstream out of its handles and registries, and the other upstreams are
\* connected as if it were not configured.
C17_WebSocketFailsFast ==
  /\ \A id \in WebSocketUpstreams :
       /\ conn[id].phase = IF Tried(id) THEN "failed" ELSE "none"
       /\ conn[id].error = IF Tried(id) THEN "UnsupportedTransport" ELSE ""
       /\ conn[id].transport = "none"
       /\ ~conn[id].oauth2Client
       /\ conn[id].attempts = 0
       /\ Tried(id) => Event("connect_failed", id) \in Range(log)
       /\ id \notin Range(clients)
       /\ id \notin connOpen
       /\ OwnsNothing(id)
  /\ WebSocketUpstreams # {} => (acquires = 0 /\ pc = "idle" /\ cb.listener = "none")
  /\ \A id \in DOMAIN config \ WebSocketUpstreams :
       (Tried(id) /\ upstream[id].connects) =>
         (id \in Range(clients) /\ id \in connOpen /\ conn[id].phase = "open")

C17_Witness ==
  /\ phase = "initialized"
  /\ Len(servers) = 2
  /\ config[servers[1]].transport = "websocket"
  /\ config[servers[1]].requiresAuth
  /\ upstream[servers[1]].connects
  /\ conn[servers[1]].error = "UnsupportedTransport"
  /\ config[servers[2]].transport = "stdio"
  /\ clients = << servers[2] >>
  /\ ~OwnsNothing(servers[2])

\* the connection of upstream id has just been opened by connect()
Opened(id) == conn[id].phase = "authenticating" /\ conn'[id].phase = "open"

\* the connection of upstream id is open and is not touched by the step
StaysOpen(id) == conn[id].phase = "open" /\ conn'[id].phase = "open"

\* C18: over the connection of an OAuth2 upstream on the streamable HTTP or
\* the SSE transport every request carries, as Authorization header, the
\* bearer of the access token authenticateOAuth2 returned to that connect;
\* the header of an open connection is the same after every step, a clear
\* or a replacement of the stored credential included.
C18_BearerCapturedAtConnect ==
  /\ [][\A id \in DOMAIN conn :
          /\ Opened(id) =>
               /\ id = cur
               /\ result.status = "returned"
               /\ result.value[1].accessToken # 0
               /\ Outbound(conn'[id]).Authorization = result.value[1].accessToken
          /\ StaysOpen(id) => Outbound(conn'[id]) = Outbound(conn[id])]_vars
  /\ [][sent' # sent =>
          /\ conn[sent'.id].phase = "open"
          /\ sent'.headers = Outbound(conn[sent'.id])
          /\ sent'.headers.Authorization # 0]_vars

C18_Witness ==
  /\ sent.id = <<"b">>
  /\ config[sent.id].transport = "sse"
  /\ UsesOAuth2(config[sent.id])
  /\ conn[sent.id].phase = "open"
  /\ store[sent.id] = << >>
  /\ sent.headers.Authorization # 0
  /\ sent.headers.Authorization = Outbound(conn[sent.id]).Authorization

\* a descriptor of the streamable HTTP or SSE transport that asks for no
\* authentication
NoAuthHTTP(cfg) ==
  /\ ConnectDispatch(cfg.transport) \in { "connectStreamableHTTP", "connectSSE" }
  /\ ~cfg.requiresAuth

\* C19: an upstream of the streamable HTTP or SSE transport with no
\* authentication requirement is connected without any step of
\* authenticateOAuth2, and each of its requests carries exactly the static
\* headers its descriptor configures.
C19_StaticHeadersOnly ==
  /\ [](\A id \in DOMAIN config :
          NoAuthHTTP(config[id]) =>
            (acquires = 0 /\ pc = "idle" /\ done = << >> /\ ~conn[id].oauth2Client))
  /\ [][(sent' # sent /\ NoAuthHTTP(config[sent'.id])) =>
          sent'.headers = config[sent'.id].headers]_vars

\* a descriptor of the streamable HTTP or SSE transport with a static bearer:
\* requiresAuth, authType "bearer", the token in the configured headers
BearerStatic(cfg) ==
  /\ ConnectDispatch(cfg.transport) \in { "connectStreamableHTTP", "connectSSE" }
  /\ cfg.requiresAuth
  /\ cfg.authType = "bearer"
  /\ cfg.headers.Authorization # 0

\* C20: over the connection of a bearer-static upstream on either HTTP
\* transport every request carries the Authorization header of the
\* configured headers, unchanged, and connecting it performs no discovery,
\* registration, authorization or refresh, opens no callback listener and
\* leaves the credential store alone.
C20_StaticBearerOnEveryRequest ==
  /\ [](\A id \in DOMAIN config :
          BearerStatic(config[id]) =>
            /\ acquires = 0 /\ pc = "idle" /\ done = << >> /\ issued = 0
            /\ ~conn[id].oauth2Client
            /\ cb.listener = "none")
  /\ [][(\E id \in DOMAIN config : BearerStatic(config[id])) => store' = store]_vars
  /\ [][(sent' # sent /\ BearerStatic(config[sent'.id])) =>
          sent'.headers.Authorization = config[sent'.id].headers.Authorization]_vars

C20_Witness ==
  /\ sent.id # << >>
  /\ BearerStatic(config[sent.id])
  /\ config[sent.id].transport = "sse"
  /\ conn[sent.id].phase = "open"
  /\ sent.headers = [Authorization |-> 8, XApiKey |-> 7]

(***************************************************************************)
(* Further properties of the aggregation pass, of startup and of shutdown. *)
(***************************************************************************)
\* the "Error loading ..." lines of one category logged for `id`
ErrorsLogged(id, ev) ==
  Cardinality({ i \in DOMAIN log : log[i] = Event(ev, id) })

\* the list call of the category threw
Threw1(outcome) == outcome.cap /\ outcome.throws

\* C21: when the list call of one category of a connected upstream throws,
\* the failure is logged once and that category is skipped; every identifier
\* the upstream's other list calls returned is inserted under its namespaced
\* key, the upstream's handle is in the connection map, and the loop goes on
\* through every remaining upstream.
C21_ListFailureSkipsCategoryOnly ==
  /\ \A id \in Range(servers) :
       (Tried(id) /\ upstream[id].connects) =>
         /\ id \in Range(clients)
         /\ id \in connOpen
         /\ ErrorsLogged(id, "tools_error") = IF Threw1(upstream[id].tools) THEN 1 ELSE 0
         /\ ErrorsLogged(id, "resources_error")
              = IF Threw1(upstream[id].resources) THEN 1 ELSE 0
         /\ ErrorsLogged(id, "prompts_error")
              = IF Threw1(upstream[id].prompts) THEN 1 ELSE 0
         /\ ErrorsLogged(id, "connect_failed") = 0
         /\ \A n \in Listed(upstream[id].tools) : PrefixedName(id, n) \in DOMAIN tools
         /\ \A u \in Listed(upstream[id].resources) :
              PrefixedUri(id, u) \in DOMAIN resources
         /\ \A n \in Listed(upstream[id].prompts) : PrefixedName(id, n) \in DOMAIN prompts
  /\ InitializeReturned => \A id \in Range(servers) : Tried(id)

C21_Witness ==
  /\ phase = "initialized"
  /\ Len(servers) = 2
  /\ Threw1(upstream[servers[1]].tools)
  /\ Listed(upstream[servers[1]].resources) # {}
  /\ Listed(upstream[servers[1]].prompts) # {}
  /\ \E k \in DOMAIN resources : resources[k].serverId = servers[1]
  /\ \E k \in DOMAIN prompts : prompts[k].serverId = servers[1]
  /\ servers[1] \in Range(clients)
  /\ \E k \in DOMAIN tools : tools[k].serverId = servers[2]

\* the kinds of request that name a registry entry
EntryRequests == { "tools/call", "resources/read", "prompts/get" }

ListRequests == { "tools/list", "resources/list", "prompts/list" }

\* C22: with no upstream configured, initialize logs the warning once and
\* returns without entering the loop; start can go on to serve, the process
\* does not exit with an error, the connection map and the registries are
\* empty, every list request returns the empty list, and every call, read
\* or get request is refused with UnknownEntry without any upstream call.
C22_NoUpstreamsStillServes ==
  servers = << >> =>
    /\ phase \in { "constructed", "initialized", "serving", "exited" }
    /\ ErrorsLogged(<< >>, "no_servers") = IF phase = "constructed" THEN 0 ELSE 1
    /\ phase = "initialized" => ENABLED StartListen
    /\ exitCode \in { -1, 0 }
    /\ phase = "exited" => sd # << >>
    /\ clients = << >>
    /\ tools = << >> /\ resources = << >> /\ prompts = << >>
    /\ req.kind \in ListRequests => (resp = "listed" /\ listing = {})
    /\ req.kind \in EntryRequests => (resp = "UnknownEntry" /\ made = << >>)
    /\ \A id \in DOMAIN inflight : inflight[id] = 0

C22_Witness ==
  /\ servers = << >>
  /\ phase = "serving"
  /\ sd = << >>
  /\ req.kind = "tools/call"
  /\ resp = "UnknownEntry"
  /\ ListToolsHandler = {}

\* the disconnect phase of a shutdown has begun
Disconnecting == \E id \in DOMAIN disconnectCalls : disconnectCalls[id] > 0

\* C23: on a termination signal the gateway first stops accepting downstream
\* requests, then disconnects every connection of the map, and only then
\* closes the server and exits; no downstream request is dispatched to an
\* upstream once the disconnects began.
C23_ShutdownOrdering ==
  /\ [](Disconnecting => sd # << >>)
  /\ [](phase = "exited" => \A id \in Range(clients) : disconnectCalls[id] > 0)
  /\ [][(HandlerStep /\ made' # << >>) => ~Disconnecting]_vars

\* a signal handler has been through position i of shutdown's loop
Passed(i) == \E h \in DOMAIN sd : sd[h] > i

\* C24: shutdown attempts a disconnect on every handle of the connection
\* map, also on those that follow a handle whose disconnect threw; each
\* throw is counted once as a logged error, the loop goes on to the next
\* handle, and the server close and the exit follow the last one.
C24_DisconnectErrorsDoNotAbort ==
  /\ \A i \in 1..Len(clients) : Passed(i) => disconnectCalls[clients[i]] > 0
  /\ \A id \in DOMAIN disconnectCalls :
       /\ disconnectErrors[id] <= disconnectCalls[id]
       /\ disconnectCalls[id] <= Len(sd)
  /\ phase = "exited" =>
       /\ exitCode = 0
       /\ \A id \in Range(clients) : disconnectCalls[id] > 0
  /\ phase = "serving" =>
       \A h \in DOMAIN sd :
         IF sd[h] <= Len(clients) THEN ENABLED ShutdownStep ELSE ENABLED ShutdownFinish

C24_Witness ==
  /\ phase = "exited"
  /\ Len(clients) = 2
  /\ disconnectErrors[clients[1]] > 0
  /\ clients[1] \in connOpen
  /\ disconnectCalls[clients[2]] > 0
  /\ disconnectErrors[clients[2]] = 0

\* the argument is there and is not the decimal numeral of a port
Malformed(arg) ==
  /\ arg # << >>
  /\ \/ \E i \in DOMAIN arg : arg[i] \notin Digits
     \/ ~Listens(ParseInt(arg, NothingRead))

\* C25: the process exits with 0 only from a signal handler whose shutdown
\* sequence has completed; with a malformed port argument it exits with 1
\* before any upstream is connected and before the endpoint is bound.
C25_ExitCodes ==
  /\ exitCode \in { -1, 0, 1 }
  /\ exitCode = 0 => (phase = "exited" /\ Passed(Len(clients)))
  /\ Malformed(argv) =>
       /\ phase \in { "main", "exited" }
       /\ phase = "exited" => exitCode = 1
       /\ idx = 1
       /\ clients = << >>
       /\ connOpen = {}

(***************************************************************************)
(* Further properties of authenticateOAuth2.                               *)
(***************************************************************************)
\* the steps of one run of authenticateOAuth2 that reach out
AuthSteps ==
  { "refresh_discover", "refresh", "full_auth", "discover", "register",
    "authorize", "exchange" }

\* the ways a full authorization fails
FullAuthFailed ==
  { "discover_failed", "no_client", "register_failed", "listen_failed",
    "AuthorizationDenied", "StateMismatch", "MissingCode", "exchange_failed" }

\* C26: within one run of authenticateOAuth2 the refresh, the discovery of
\* the full authorization, the registration, the browser authorization and
\* the token exchange are each attempted at most once; a failure of
\* discovery, registration, authorization or exchange is the last thing the
\* run does, and the run ends by throwing to its caller.
C26_NoRetry ==
  /\ \A ev \in AuthSteps : Count(ev) <= 1
  /\ \A ev \in FullAuthFailed :
       Has(ev) =>
         /\ Count(ev) = 1
         /\ done[Len(done)] = ev
         /\ pc \in { "idle", "listen_failed" }
         /\ pc = "idle" => result.status = "threw"
  /\ (pc = "idle" /\ result.status = "threw" /\ cur # << >>) =>
       \E ev \in FullAuthFailed : Has(ev)

C26_Witness ==
  /\ pc = "idle"
  /\ result.status = "threw"
  /\ Has("refresh_failed")
  /\ Has("register")
  /\ Has("authorize")
  /\ Has("exchange_failed")

\* the step is a successful refreshAccessToken
Refreshed == pc = "refresh_call" /\ pc' = "idle"

\* C27: a successful refresh saves and returns one and the same new
\* credential, with a newly issued access token; its refresh token is the
\* one of the response when the response has one and the refresh token the
\* refresh was made with when it has none, so it is never absent.
C27_RefreshKeepsRefreshToken ==
  [][Refreshed =>
       /\ result'.status = "returned"
       /\ store'[cur] = result'.value
       /\ result'.value[1].accessToken = issued'
       /\ result'.value[1].accessToken # credentials[1].accessToken
       /\ credentials[1].refreshToken # 0
       /\ result'.value[1].refreshToken =
            IF tokenData'.refresh_token THEN issued' ELSE credentials[1].refreshToken
       /\ result'.value[1].refreshToken # 0
       /\ result'.value[1].clientId = credentials[1].clientId]_vars

C27_Witness ==
  /\ pc = "idle"
  /\ result.status = "returned"
  /\ Has("refresh")
  /\ ~Has("refresh_failed")
  /\ ~tokenData.refresh_token
  /\ store[cur] = result.value
  /\ result.value[1].refreshToken = credentials[1].refreshToken
  /\ result.value[1].refreshToken # 0

\* a step of one of the six request handlers
RequestStep == HandlerStep \/ ListTools \/ ListResources \/ ListPrompts

\* C28: no downstream request is handled, and no call forwarded, before the
\* loop of initialize has been through every configured upstream; from the
\* moment the gateway serves, the connection map and the three registries
\* are those the startup pass left and no step changes them.
C28_ServesAfterAggregation ==
  /\ [](phase \in { "main", "constructed", "initializing", "initialized" } =>
          /\ req.kind = "none"
          /\ resp = "none"
          /\ made = << >>
          /\ \A id \in DOMAIN inflight : inflight[id] = 0)
  /\ [](phase = "serving" =>
          /\ \A id \in Range(servers) : Tried(id)
          /\ Range(clients) = Connected)
  /\ [][RequestStep => (phase = "serving" /\ \A id \in Range(servers) : Tried(id))]_vars
  /\ [][phase = "serving" =>
          <<clients, tools, resources, prompts>>' = <<clients, tools, resources, prompts>>]_vars

C28_Witness ==
  /\ phase = "serving"
  /\ Len(servers) = 2
  /\ Len(clients) = 2
  /\ req.kind = "tools/call"
  /\ resp = "pending"
  /\ made # << >>
  /\ made[1].server = servers[2]

\* the step calls disconnect() on the handle of `id`
DisconnectOf(id) == disconnectCalls'[id] > disconnectCalls[id]

\* C29: a handle is not disconnected while a call forwarded to it is still
\* awaited, and the process does not exit while any forwarded call is still
\* awaited: each such call first completes and its result or error is
\* relayed by the upstream's answer.
C29_NoDisconnectMidCall ==
  /\ [][\A id \in DOMAIN disconnectCalls : DisconnectOf(id) => inflight[id] = 0]_vars
  /\ [][(phase # "exited" /\ phase' = "exited") =>
          \A id \in DOMAIN inflight : inflight[id] = 0]_vars

\* the connection of the upstream has been torn down by a disconnect
TornDownBy(id) ==
  /\ id \in DOMAIN disconnectCalls
  /\ disconnectCalls[id] > 0
  /\ id \notin connOpen

\* C30: once the connection of an upstream has been disconnected no tool,
\* resource or prompt entry owned by that upstream is left in a registry,
\* and no list handler returns one.
C30_EntriesRemovedOnTeardown ==
  /\ [](\A id \in Range(clients) : TornDownBy(id) => OwnsNothing(id))
  /\ [][ListTools =>
          \A k \in DOMAIN tools :
            TornDownBy(tools[k].serverId) => tools[k].name \notin listing']_vars
  /\ [][ListResources =>
          \A k \in DOMAIN resources :
            TornDownBy(resources[k].serverId) => resources[k].uri \notin listing']_vars
  /\ [][ListPrompts =>
          \A k \in DOMAIN prompts :
            TornDownBy(prompts[k].serverId) => prompts[k].name \notin listing']_vars

(***************************************************************************)
(* Properties of the registries, the configuration, the credential store   *)
(* and the listeners.                                                      *)
(***************************************************************************)
\* the ids the registries name as owners of their entries
Owners ==
  { tools[k].serverId : k \in DOMAIN tools } \cup
  { resources[k].serverId : k \in DOMAIN resources } \cup
  { prompts[k].serverId : k \in DOMAIN prompts }

\* C31: in every reachable state the serverId of every tool, resource and
\* prompt entry is an id the connection map holds a handle for, and no step
\* removes a handle from the connection map.
C31_RoutingTableConsistent ==
  /\ [](Owners \subseteq Range(clients))
  /\ [][Range(clients) \subseteq Range(clients')]_vars

\* an upstream owns entries while its connection is already torn down by
\* the shutdown, next to an upstream that never connected
C31_Witness ==
  /\ \E id \in Owners : id \notin connOpen /\ disconnectCalls[id] > 0
  /\ \E id \in Range(servers) : id \notin Range(clients)

\* the elements of the configuration file that are descriptors with a
\* transport and whose id no other element carries
WellFormed ==
  { i \in 1..Len(file.configs) :
      /\ file.configs[i].shape = "record"
      /\ \A j \in 1..Len(file.configs) :
           (j # i /\ file.configs[j].shape # "null")
             => file.configs[j].id # file.configs[i].id }

\* some element of the configuration file is no descriptor with a transport
SomeMalformed ==
  \E i \in 1..Len(file.configs) : file.configs[i].shape # "record"

\* C32: with a malformed element in a configuration file that parses, every
\* well-formed descriptor of the file is still tried, its upstream is
\* connected whenever it accepts the connection, and its tools are
\* aggregated, by the time the gateway serves.
C32_MalformedDescriptorIsLocal ==
  (phase = "serving" /\ file.readable /\ SomeMalformed) =>
    \A i \in WellFormed :
      LET id == file.configs[i].id
      IN /\ id \in Range(servers)
         /\ upstream[id].connects =>
              /\ id \in Range(clients)
              /\ \A n \in Listed(upstream[id].tools) :
                   PrefixedName(id, n) \in DOMAIN tools

\* the part of C32 that holds: a descriptor without transport fails alone
MissingTransportIsLocal ==
  (\A i \in 1..Len(file.configs) : file.configs[i].shape # "null")
    => C32_MalformedDescriptorIsLocal

\* C34: the list getAllServers returned holds no id twice, whatever the
\* configuration file holds, and no iteration of the aggregation loop finds
\* a handle already stored under the id it connects.
C34_UpstreamIdsUnique ==
  /\ [](\A i, j \in 1..Len(servers) : servers[i] = servers[j] => i = j)
  /\ [][InitializeServer => servers[idx] \notin Range(clients)]_vars

\* a file with the same id on two descriptors has been loaded and the one
\* upstream under that id is connected
C34_Witness ==
  /\ Len(file.configs) = 2
  /\ file.configs[1].shape = "record"
  /\ file.configs[2].shape = "record"
  /\ file.configs[1].id = file.configs[2].id
  /\ phase = "serving"
  /\ clients = << file.configs[1].id >>

\* startCallbackServer has bound its listener and its promise is unsettled
Waiting == pc = "waiting" /\ cb.outcome = "pending"

\* C33: while the callback wait is unsettled, every step that is not the
\* arrival of a callback request (time passing included) leaves the wait
\* unsettled and the listener bound, authenticateOAuth2 neither returns nor
\* throws, and the connect of no other upstream begins.
C33_CallbackWaitUnbounded ==
  [][(Waiting /\ ~Callback) =>
       /\ Waiting'
       /\ cb'.listener = "open"
       /\ result' = result
       /\ conn'[cur] = conn[cur]
       /\ cur' = cur
       /\ acquires' = acquires
       /\ \A id \in DOMAIN conn :
            conn'[id].phase \in { "authenticating", "open" }
              => conn'[id].phase = conn[id].phase]_vars

\* the clock has run to its end during a wait that began at its start,
\* with another upstream still unconnected
C33_Witness ==
  /\ Waiting
  /\ cb.listener = "open"
  /\ result.at = 1
  /\ now = MaxTime
  /\ \E id \in DOMAIN conn : id # cur /\ conn[id].phase = "none"

\* C37: the callback listener of one authorization is closed before the
\* authorization of the next upstream opens its listener on port 3000.
C37_OneCallbackListener ==
  [][Authorize => cb.listener # "open"]_vars

\* the ids whose stored record a step changes
Rewritten == { id \in DOMAIN store : store'[id] # store[id] }

Refused(ev) == ev \in Range(done') /\ ev \notin Range(done)

\* C36: a token exchange or a refresh request that is answered with a
\* non-success status writes no credential: the store is as it was before.
C36_FailedTokenRequestKeepsStore ==
  [][(Refused("exchange_failed") \/ Refused("refresh_failed"))
       => (store' = store /\ issued' = issued)]_vars

\* a refresh was refused while a record was stored, and the full
\* authorization that followed has had its exchange refused as well
C36_Witness ==
  /\ "refresh_failed" \in Range(done)
  /\ "exchange_failed" \in Range(done)
  /\ store[cur] # << >>
  /\ store[cur] = credentials

\* C38: however many termination signals are delivered, disconnect is
\* called at most once on every connection.
C38_ShutdownRunsOnce ==
  \A id \in DOMAIN disconnectCalls : disconnectCalls[id] <= 1

\* C39: a list request returns exactly the keys of its registry, each key
\* differs from the original identifier of its entry, and a call, read or
\* get request with an identifier its list handler returns is not refused
\* as an unknown entry.
C39_ListingAndDispatchAgree ==
  /\ [][ListTools => listing' = DOMAIN tools]_vars
  /\ [][ListResources => listing' = DOMAIN resources]_vars
  /\ [][ListPrompts => listing' = DOMAIN prompts]_vars
  /\ [](/\ \A k \in DOMAIN tools : k # tools[k].originalName
        /\ \A k \in DOMAIN resources : k # resources[k].originalUri
        /\ \A k \in DOMAIN prompts : k # prompts[k].originalName)
  /\ [][(CallTool /\ req'.name \in ListToolsHandler) => resp' # "UnknownEntry"]_vars
  /\ [][(ReadResource /\ req'.name \in ListResourcesHandler)
          => resp' # "UnknownEntry"]_vars
  /\ [][(GetPrompt /\ req'.name \in ListPromptsHandler) => resp' # "UnknownEntry"]_vars

\* the tools of two upstreams have just been listed
C39_Witness ==
  /\ req.kind = "tools/list"
  /\ resp = "listed"
  /\ listing = DOMAIN tools
  /\ \E k1, k2 \in listing : tools[k1].serverId # tools[k2].serverId

====
